---- MODULE Spec2Model ----
(***************************************************************************)
(* Model of the Modbus RTU transaction engine of the Sinilink XY PSU       *)
(* driver (src/src/psu.rs): one session XyPsu<S, L> talking to a transport *)
(* S that may deliver partial reads, report "no data" or fail.              *)
(*                                                                         *)
(* One transaction is modelled as a call step (build the request frame and *)
(* write_all it), followed by one step per transport read of the           *)
(* accumulation loop; the step that leaves the loop also validates or      *)
(* decodes the accumulated bytes and fixes the returned value.             *)
(*                                                                         *)
(* The frame codec is the rmodbus crate (ModbusRequest, Rtu); it is        *)
(* modelled by the Modbus RTU layouts of spec section 6, with the CRC      *)
(* computed bit by bit, and pinned by the byte vectors of the unit tests   *)
(* of psu.rs.                                                              *)
(***************************************************************************)
EXTENDS Integers, Sequences, FiniteSets, TLC

\* ------------------------------------------------------------------ bounds
\* largest register count of a bulk read / bulk write that is explored
MaxCount == 2
\* how many times in one transaction the transport may return Ok(0)
MaxZeroReads == 1
\* how many bytes of line noise may precede or follow a frame on the wire
MaxNoise == 1

\* ------------------------------------------------------- program constants
\* temp_buf of write_modbus_single, write_modbus_bulk, read_modbus_single
TempBufSmall == 8
\* temp_buf of read_modbus_bulk
TempBufBulk == 64
\* accumulated length at which the single/write loops stop reading
MinResponseLen == 8
\* Modbus function codes used by the three request shapes
MODBUS_GET_HOLDINGS == 3
MODBUS_SET_HOLDING == 6
MODBUS_SET_HOLDINGS_BULK == 16

\* ------------------------------------------------------------ input sets
\* capacities L of the accumulation buffer (const generic of XyPsu)
Capacities == {8, 12, 16}
\* slave addresses of the session
UnitIds == {1, 247}
\* register addresses passed by the caller
Registers == {16, 32, 336}
\* raw 16-bit values: written by the caller, or held by the device
Values == {4660, 22136}

\* ------------------------------------------------------------- bytes
Hi(x) == (x \div 256) % 256
Lo(x) == x % 256
U16(hi, lo) == hi * 256 + lo

RECURSIVE Xor16(_, _, _)
Xor16(a, b, n) ==
    IF n = 0 THEN 0
    ELSE (((a % 2) + (b % 2)) % 2) + (2 * Xor16(a \div 2, b \div 2, n - 1))

\* the eight shift/xor rounds applied after a byte has been xored in
RECURSIVE crc_shift(_, _)
crc_shift(crc, n) ==
    IF n = 0 THEN crc
    ELSE IF crc % 2 = 1
         THEN crc_shift(Xor16(crc \div 2, 40961, 16), n - 1)
         ELSE crc_shift(crc \div 2, n - 1)

\* the CRC register after the first i bytes of buf
RECURSIVE crc_upto(_, _)
crc_upto(buf, i) ==
    IF i = 0 THEN 65535
    ELSE crc_shift(Xor16(crc_upto(buf, i - 1), buf[i], 16), 8)

\* CRC16/Modbus: initial value 0xFFFF, reflected polynomial 0xA001
calc_crc16(buf) == crc_upto(buf, Len(buf))

\* an RTU frame: the body followed by its CRC, low byte first
RtuFrame(body) == body \o <<Lo(calc_crc16(body)), Hi(calc_crc16(body))>>

RECURSIVE RegBytes(_)
RegBytes(regs) ==
    IF regs = <<>> THEN <<>>
    ELSE <<Hi(Head(regs)), Lo(Head(regs))>> \o RegBytes(Tail(regs))


\* ------------------------------------------------ frame codec (rmodbus)
\* ModbusRequest::generate_set_holding
generate_set_holding(u, addr, value) ==
    RtuFrame(<<u, MODBUS_SET_HOLDING, Hi(addr), Lo(addr), Hi(value), Lo(value)>>)

\* ModbusRequest::generate_get_holdings
generate_get_holdings(u, addr, cnt) ==
    RtuFrame(<<u, MODBUS_GET_HOLDINGS, Hi(addr), Lo(addr), Hi(cnt), Lo(cnt)>>)

\* ModbusRequest::generate_set_holdings_bulk
generate_set_holdings_bulk(u, addr, values) ==
    RtuFrame(<<u, MODBUS_SET_HOLDINGS_BULK, Hi(addr), Lo(addr),
               Hi(Len(values)), Lo(Len(values)), 2 * Len(values)>>
             \o RegBytes(values))

RECURSIVE BytesToRegs(_)
BytesToRegs(bytes) ==
    IF Len(bytes) < 2 THEN <<>>
    ELSE <<U16(bytes[1], bytes[2])>> \o BytesToRegs(SubSeq(bytes, 3, Len(bytes)))

\* what ModbusRequest::parse_u16 rejects: a frame shorter than the shortest
\* RTU response, a CRC mismatch, a foreign unit id, a function code other
\* than the requested one (exception responses included), and a byte
\* count that disagrees with the frame length or with the requested count
FrameRejected(u, cnt, buf) ==
    \/ Len(buf) < 5
    \/ calc_crc16(SubSeq(buf, 1, Len(buf) - 2))
          # U16(buf[Len(buf)], buf[Len(buf) - 1])
    \/ buf[1] # u
    \/ buf[2] # MODBUS_GET_HOLDINGS
    \/ buf[3] # Len(buf) - 5
    \/ buf[3] # 2 * cnt

\* ModbusRequest::parse_u16 for a get-holdings request of `count' registers
parse_u16(u, cnt, buf) ==
    IF FrameRejected(u, cnt, buf)
    THEN [regs |-> <<>>, ok |-> FALSE]
    ELSE [regs |-> BytesToRegs(SubSeq(buf, 4, Len(buf) - 2)), ok |-> TRUE]

\* ------------------------------------------------------------ transport
\* MockSerialError
SerialErrors == {"WouldBlock", "Timeout", "SimulatedError", "InvalidData",
                 "BufferOverflow"}

\* errors a read of the transport can return
ReadErrors == {"WouldBlock", "Timeout", "SimulatedError", "InvalidData"}

\* the errors by which a transport says "no data currently available"
NoDataSignals == {"WouldBlock", "Timeout"}

\* errors MockSerial::write can return
WriteErrors == {"SimulatedError", "BufferOverflow"}

\* MockSerialError::kind
kind(e) ==
    CASE e = "Timeout"        -> "TimedOut"
      [] e = "BufferOverflow" -> "OutOfMemory"
      [] e = "InvalidData"    -> "InvalidData"
      [] e = "SimulatedError" -> "Other"
      [] e = "WouldBlock"     -> "Other"

\* --------------------------------------------------------------- results
Ok(v) == [tag |-> "Ok", val |-> v, cause |-> "none"]
Err(t, c) == [tag |-> t, val |-> <<>>, cause |-> c]
NoResult == [tag |-> "none", val |-> <<>>, cause |-> "none"]

Ops == {"write_single", "write_bulk", "read_single", "read_bulk"}

\* ------------------------------------------------- transaction engine
\* the `if buff.len() >= ...` test that ends the accumulation loop
loop_threshold(o, cnt) ==
    IF o = "read_bulk" THEN 5 + (cnt * 2) + 2 ELSE MinResponseLen

\* size of the temp_buf handed to interface.read
temp_buf_len(o) == IF o = "read_bulk" THEN TempBufBulk ELSE TempBufSmall

\* variant: only a timeout counts as an idle line
is_idle_kind_timeout_only(k) == k \in {"TimedOut"}

\* the matches!(e.kind(), Other | TimedOut) test of the Err(e) arm
is_idle_kind(k) == k \in {"Other", "TimedOut"}

\* Err(e) arm of the loop: leave the loop and validate, or propagate
breaks_on_error(e, buf) == is_idle_kind(kind(e)) /\ buf # <<>>

\* the error a propagated read failure is returned as
read_error(e) == Err("SerialError", e)

\* the error a failed write_all is returned as
write_error(e) == Err("SerialError", e)

\* variant: the outcome of write_all is dropped
after_write_all_ignored(ok) == "reading"

\* `.map_err(SerialError)?` on write_all: go on to the loop, or return
after_write_all(ok) == IF ok THEN "reading" ELSE "done"

\* variant: the result of extend_from_slice is not looked at
extend_fits_always(cap, buf, chunk) == TRUE

\* heapless::Vec::extend_from_slice: all of the slice, or nothing and Err
extend_fits(cap, buf, chunk) == Len(buf) + Len(chunk) <= cap

\* variant: register and data passed in the wrong order
write_single_request_swapped(u, addr, value) == generate_set_holding(u, value, addr)

\* request frame of write_modbus_single
write_single_request(u, addr, value) == generate_set_holding(u, addr, value)

\* variant: a count of two, taking the 1 for a byte count
read_single_request_two(u, addr) == generate_get_holdings(u, addr, 2)

\* request frame of read_modbus_single
read_single_request(u, addr) == generate_get_holdings(u, addr, 1)

\* request frame of read_modbus_bulk
read_bulk_request(u, addr, cnt) == generate_get_holdings(u, addr, cnt)

\* request frame of write_modbus_bulk
write_bulk_request(u, addr, values) == generate_set_holdings_bulk(u, addr, values)

\* variant: only the header is compared, as write_modbus_bulk does
check_write_single_header(rq, buf) ==
    IF Len(buf) < 6 \/ SubSeq(rq, 1, 6) # SubSeq(buf, 1, 6)
    THEN Err("InvalidResponse", "none") ELSE Ok(<<>>)

\* write_modbus_single after the loop: byte-for-byte echo comparison
check_write_single(rq, buf) ==
    IF rq # buf THEN Err("InvalidResponse", "none") ELSE Ok(<<>>)

\* variant: the whole response frame is compared, CRC included
check_write_bulk_whole(rq, buf) ==
    IF Len(rq) < 6 \/ Len(buf) < 6 THEN Err("Panic", "none")
    ELSE IF buf # RtuFrame(SubSeq(rq, 1, 6))
         THEN Err("InvalidResponse", "none")
         ELSE Ok(<<>>)

\* write_modbus_bulk after the loop: compare [0..=5]; slicing a shorter
\* buffer panics
check_write_bulk(rq, buf) ==
    IF Len(rq) < 6 \/ Len(buf) < 6 THEN Err("Panic", "none")
    ELSE IF SubSeq(rq, 1, 6) # SubSeq(buf, 1, 6)
         THEN Err("InvalidResponse", "none")
         ELSE Ok(<<>>)

\* variant: a failed parse falls back to the data bytes as they are
decode_read_single_unchecked(u, buf) ==
    IF Len(buf) < 5 THEN Err("InvalidResponse", "none")
    ELSE Ok(<<U16(buf[4], buf[5])>>)

\* read_modbus_single after the loop: parse, then the first register
decode_read_single(u, buf) ==
    LET p == parse_u16(u, 1, buf) IN
    IF ~p.ok THEN Err("InvalidResponse", "none")
    ELSE IF p.regs = <<>> THEN Err("InvalidResponse", "none")
         ELSE Ok(<<Head(p.regs)>>)

\* read_modbus_bulk after the loop: parse, all registers
decode_read_bulk(u, cnt, buf) ==
    LET p == parse_u16(u, cnt, buf) IN
    IF ~p.ok THEN Err("InvalidResponse", "none") ELSE Ok(p.regs)

\* what the transaction returns once the loop is left with `buf'
finish(o, u, cnt, rq, buf) ==
    CASE o = "write_single" -> check_write_single(rq, buf)
      [] o = "write_bulk"   -> check_write_bulk(rq, buf)
      [] o = "read_single"  -> decode_read_single(u, buf)
      [] o = "read_bulk"    -> decode_read_bulk(u, cnt, buf)

\* ----------------------------------------------- what the bus delivers
Noise(n) == [i \in 1..n |-> 255]

\* registers a device holding value v answers a read of `count' with
DeviceRegs(v, cnt) == [i \in 1..cnt |-> (v + i - 1) % 65536]

\* a well-formed read-holding-registers response
ReadResponse(u, regs) ==
    RtuFrame(<<u, MODBUS_GET_HOLDINGS, 2 * Len(regs)>> \o RegBytes(regs))

\* a well-formed write-multiple-registers response: the request header
WriteBulkResponse(rq) == RtuFrame(SubSeq(rq, 1, 6))

\* the frame with its CRC bytes zeroed
BadCrc(frame) == SubSeq(frame, 1, Len(frame) - 2) \o <<0, 0>>

\* the frame with one body byte altered and the CRC left alone
Corrupt(frame) == [frame EXCEPT ![6] = (@ + 1) % 256]

\* byte streams the line may carry after a read request
ReadWires(u, rq, cnt) ==
    UNION { LET resp == ReadResponse(u, DeviceRegs(v, cnt)) IN
            { resp, BadCrc(resp), SubSeq(resp, 1, 4), rq \o resp,
              ReadResponse((u % 247) + 1, DeviceRegs(v, cnt)),
              ReadResponse(u, DeviceRegs(v, cnt - 1)),
              RtuFrame(<<u, MODBUS_GET_HOLDINGS + 128, 2>>) }
            \cup { resp \o Noise(n) : n \in 1..MaxNoise }
            \cup { Noise(n) \o resp : n \in 1..MaxNoise }
          : v \in Values }
    \cup { <<>> }

\* byte streams the line may carry after a write-single request
WriteSingleWires(rq) ==
    { <<>>, rq, SubSeq(rq, 1, 4), Corrupt(rq),
      rq \o rq }
    \cup { rq \o Noise(n) : n \in 1..MaxNoise }
    \cup { Noise(n) \o rq : n \in 1..MaxNoise }

\* byte streams the line may carry after a write-multiple request
WriteBulkWires(rq) ==
    LET resp == WriteBulkResponse(rq) IN
    { <<>>, resp, SubSeq(resp, 1, 4), BadCrc(resp), Corrupt(resp),
      rq \o resp }
    \cup { resp \o Noise(n) : n \in 1..MaxNoise }
    \cup { Noise(n) \o resp : n \in 1..MaxNoise }

Wires(o, u, rq, c) ==
    CASE o = "write_single" -> WriteSingleWires(rq)
      [] o = "write_bulk"   -> WriteBulkWires(rq)
      [] o = "read_single"  -> ReadWires(u, rq, c)
      [] o = "read_bulk"    -> ReadWires(u, rq, c)

\* ------------------------------------------- 16- and 32-bit arithmetic
\* A u32 is kept as its two 16-bit halves [hi, lo], so that products and
\* quotients are computed at their real width; a divisor is a u32 below
\* 2^30 and kept as a number.
TwoTo16 == 65536

\* `x as u32' for a number below 2^31
u32(n) == [hi |-> n \div TwoTo16, lo |-> n % TwoTo16]

\* `x as u16': the low half
as_u16(x) == x.lo

\* u16::try_from(x): fails when the high half is set
fits_u16(x) == x.hi = 0

\* the exact 32-bit product of two 16-bit numbers
Mul16(a, b) ==
    LET t == (a % 256) * b
        u == (a \div 256) * b
        s == (u % 256) * 256 + t
    IN [hi |-> (u \div 256) + (s \div TwoTo16), lo |-> s % TwoTo16]

\* x * d on u32: the wrapped product, and whether it overflowed
mul_u32(x, d) ==
    LET dh == d \div TwoTo16
        dl == d % TwoTo16
        A == Mul16(x.lo, dl)
        B == Mul16(x.lo, dh)
        C == Mul16(x.hi, dl)
        mid == A.hi + B.lo + C.lo
    IN [val |-> [hi |-> mid % TwoTo16, lo |-> A.lo],
        ovf |-> (mid \div TwoTo16) + B.hi + C.hi + (x.hi * dh) > 0]

\* long division of the low half, bit i downwards, r being the remainder
\* carried in and q the quotient bits so far
RECURSIVE div_bits(_, _, _, _, _)
div_bits(r, q, lo, d, i) ==
    IF i < 0 THEN [r |-> r, q |-> q]
    ELSE LET r2 == 2 * r + ((lo \div (2 ^ i)) % 2) IN
         IF r2 >= d THEN div_bits(r2 - d, 2 * q + 1, lo, d, i - 1)
         ELSE div_bits(r2, 2 * q, lo, d, i - 1)

\* x / d and x % d on u32, d # 0
div_u32(x, d) ==
    LET low == div_bits(x.hi % d, 0, x.lo, d, 15)
    IN [r |-> low.r, q |-> [hi |-> x.hi \div d, lo |-> low.q]]

\* a * b on u16: the wrapped product, and whether it overflowed
mul_u16(a, b) == [val |-> (a * b) % TwoTo16, ovf |-> a * b >= TwoTo16]

\* a - b on u16
sub_u16(a, b) == [val |-> (a - b + TwoTo16) % TwoTo16, ovf |-> a < b]

\* a + b on u16
add_u16(a, b) == [val |-> (a + b) % TwoTo16, ovf |-> a + b >= TwoTo16]

\* Option<T>: None, or Some(x) holding x
None == <<>>
Some(x) == <<x>>

\* ------------------------------------------------ scaling (scaling.rs)
ScalingFactors(v, c, p, cap, e) ==
    [voltage_divisor |-> v, current_divisor |-> c, power_divisor |-> p,
     capacity_divisor |-> cap, energy_divisor |-> e]

raw_to_voltage_mv(sf, raw) == mul_u32(u32(raw), sf.voltage_divisor)

voltage_mv_to_raw(sf, voltage_mv) ==
    as_u16(div_u32(voltage_mv, sf.voltage_divisor).q)

raw_to_current_ma(sf, raw) == mul_u32(u32(raw), sf.current_divisor)

current_ma_to_raw(sf, current_ma) ==
    as_u16(div_u32(current_ma, sf.current_divisor).q)

raw_to_power_mw(sf, raw) == mul_u32(u32(raw), sf.power_divisor)

power_mw_to_raw(sf, power_mw) ==
    as_u16(div_u32(power_mw, sf.power_divisor).q)

\* ProductModel::scaling_factors, by the value of the model register
scaling_factors(model) ==
    CASE model = 3607  -> Some(ScalingFactors(10, 1, 100, 1, 10))
      [] model = 7025  -> Some(ScalingFactors(10, 10, 1000, 10, 100))
      [] model = 12522 -> Some(ScalingFactors(10, 10, 1000, 10, 100))
      [] OTHER -> None

\* --------------------------------------------- temperature (register.rs)
Celsius(value) == [value |-> value, unit |-> "Celsius"]
Fahrenheit(value) == [value |-> value, unit |-> "Fahrenheit"]

\* Temperature::new
Temperature(value, unit) ==
    IF unit = "Celsius" THEN Celsius(value) ELSE Fahrenheit(value)

\* TemperatureUnit::try_from(u16)
TemperatureUnit(raw) ==
    CASE raw = 0 -> "Celsius"
      [] raw = 1 -> "Fahrenheit"
      [] OTHER -> "Err"

\* variant: the tenths are dropped
div_10_and_round_down(value) == value \div 10

div_10_and_round(value) ==
    IF value % 10 >= 5 THEN (value \div 10) + 1 ELSE value \div 10

\* Temperature::from_centi
from_centi(value, unit) == Temperature(div_10_and_round(value), unit)

\* ((temp_f * 10 - 320) * 5) / 9 on u16, then rounded
f_to_c(temp_f) ==
    LET a == mul_u16(temp_f, 10)
        b == sub_u16(a.val, 320)
        c == mul_u16(b.val, 5)
    IN [val |-> div_10_and_round(c.val \div 9),
        ovf |-> a.ovf \/ b.ovf \/ c.ovf]

\* ((temp_c * 90) / 5) + 320 on u16, then rounded
c_to_f(temp_c) ==
    LET a == mul_u16(temp_c, 90)
        b == add_u16(a.val \div 5, 320)
    IN [val |-> div_10_and_round(b.val), ovf |-> a.ovf \/ b.ovf]

as_celsius(t) ==
    IF t.unit = "Celsius" THEN [val |-> t.value, ovf |-> FALSE]
    ELSE f_to_c(t.value)

as_fahrenheit(t) ==
    IF t.unit = "Celsius" THEN c_to_f(t.value)
    ELSE [val |-> t.value, ovf |-> FALSE]

\* variant: the stored number is taken as it is, whatever the unit
as_unit_stored(t, unit) == [val |-> t.value, ovf |-> FALSE]

\* Temperature::as_unit
as_unit(t, unit) ==
    IF unit = "Celsius" THEN as_celsius(t) ELSE as_fahrenheit(t)

\* ------------------------------------------------- presets (preset.rs)
\* variant: the blocks start inside the main register map
PRESET_OFFSET_in_map == 2 * 16

\* the base address of the first preset block
PRESET_OFFSET == 80

\* XyPresetOffsets, by name
XPO ==
    [VSet |-> 0, ISet |-> 1, SLvp |-> 2, SOvp |-> 3, SOcp |-> 4, SOpp |-> 5,
     SOhpH |-> 6, SoHpM |-> 7, SOahL |-> 8, SOahH |-> 9, SOwhL |-> 10,
     SOwhH |-> 11, SOtp |-> 12, SIni |-> 13, SEtp |-> 14]

\* XyPresetOffsets::COUNT
XPO_COUNT == 15

\* variant: every register value is taken as a group
PresetGroup_unchecked(value) == Some(value)

\* PresetGroup::try_from
PresetGroup(value) == IF value \in 0..9 THEN Some(value) ELSE None

\* variant: the groups are packed without the gap after the 15 registers
address_in_group_packed(offset, group) ==
    (PRESET_OFFSET + (group * XPO_COUNT) + offset) % TwoTo16

address_in_group(offset, group) ==
    (PRESET_OFFSET + (group * 16) + offset) % TwoTo16

\* ProtectionConfig; the voltages, power, capacity and energy are u32, the
\* current is u16, over_time is a Duration in seconds
ProtectionConfig(uv, ov, oc, opw, ot, oah, owh, otp) ==
    [under_voltage_mv |-> uv, over_voltage_mv |-> ov, over_current_ma |-> oc,
     over_power_mw |-> opw, over_time |-> ot, over_capacity_mah |-> oah,
     over_energy_mwh |-> owh, over_temperature |-> otp]

\* XyPresetBuilder::new(..).with_protections(..).with_output(..).build()
XyPreset(g, v, i, p, en) ==
    [group |-> g, voltage_setting_mv |-> v, current_setting_ma |-> i,
     protection |-> p, output_enable |-> en]

\* Duration::to_minutes
to_minutes(secs) == secs \div 60

\* variant: the hours rounded to the nearest hour
to_hours_rounded(secs) == (secs + 1800) \div 3600

\* Duration::to_hours
to_hours(secs) == secs \div 3600

\* Duration::hours(h) + Duration::minutes(m), in seconds
decode_over_time(h, m) == h * 3600 + m * 60

\* XyPreset::generate_write_data_and_offset: the block's start address and
\* its 15 raw values; `panic' when an unwrap fails, `ovf' when a
\* temperature conversion overflows
generate_write_data_and_offset(preset, temperature_unit) ==
    LET p == preset.protection
        vset == div_u32(preset.voltage_setting_mv, 10).q
        hours == to_hours(p.over_time)
        otp == as_unit(p.over_temperature, temperature_unit)
    IN [ovf |-> otp.ovf,
        panic |-> ~fits_u16(vset) \/ hours >= TwoTo16,
        start_address |-> address_in_group(XPO.VSet, preset.group),
        write_buffer |->
          << as_u16(vset),
             preset.current_setting_ma,
             as_u16(div_u32(p.under_voltage_mv, 10).q),
             as_u16(div_u32(p.over_voltage_mv, 10).q),
             p.over_current_ma,
             as_u16(div_u32(p.over_power_mw, 10).q),
             hours % TwoTo16,
             to_minutes(p.over_time) % 60,
             as_u16(p.over_capacity_mah),
             p.over_capacity_mah.hi,
             as_u16(p.over_power_mw),
             p.over_energy_mwh.hi,
             otp.val,
             preset.output_enable,
             otp.val >>]

\* get_protections, idx: index of a register in the 13 read from SLvp on
idx(register) == register - XPO.SLvp + 1

\* get_protections after the reads: the 13 registers as a ProtectionConfig
decode_protections(sf, registers, temp_unit) ==
    LET uv == raw_to_voltage_mv(sf, registers[idx(XPO.SLvp)])
        ov == raw_to_voltage_mv(sf, registers[idx(XPO.SOvp)])
        oc == raw_to_current_ma(sf, registers[idx(XPO.SOcp)])
        opw == raw_to_power_mw(sf, registers[idx(XPO.SOpp)])
        oah == mul_u32([hi |-> registers[idx(XPO.SOahH)],
                        lo |-> registers[idx(XPO.SOahL)]],
                       sf.capacity_divisor)
        owh == mul_u32([hi |-> registers[idx(XPO.SOwhH)],
                        lo |-> registers[idx(XPO.SOwhL)]],
                       sf.energy_divisor)
    IN [val |-> ProtectionConfig(
                  uv.val, ov.val, oc.val, opw.val,
                  decode_over_time(registers[idx(XPO.SOhpH)],
                                   registers[idx(XPO.SoHpM)]),
                  oah.val, owh.val,
                  Temperature(registers[idx(XPO.SOtp)], temp_unit)),
        ovf |-> uv.ovf \/ ov.ovf \/ oc.ovf \/ opw.ovf \/ oah.ovf \/ owh.ovf]

\* ----------------------------------------------------------------- state
VARIABLES
    L,          \* capacity of the accumulation buffers (const generic L)
    unit_id,    \* XyPsu::unit_id
    pc,         \* "idle", "reading" (inside the loop) or "done"
    op,         \* the transaction in progress
    reg,        \* its (start) register
    data,       \* the values it writes
    count,      \* the number of registers it reads
    request,    \* the generated request frame
    written,    \* bytes the transport accepted from write_all
    wire,       \* bytes the transport has not delivered yet
    rx,         \* bytes the transport has delivered in this transaction
    buff,       \* the accumulation buffer (buff_2 / buff)
    zero_reads, \* reads of this transaction that returned Ok(0)
    last_read,  \* outcome of the latest interface.read of this transaction:
                \* "none" before the first read, "Ok", or the error
    exit,       \* how the transaction left: "none", "gen", "write",
                \* "full", "idle", "overflow", "error"
    result,     \* the value returned to the caller
    scaling,    \* XyPsu::scaling: None or Some(the cached ScalingFactors)
    dev,        \* the holding registers of the device on the bus
    fcall,      \* the latest call of a scaled accessor or conversion
    fret,       \* what that call returned
    log,        \* the transactions that call issued, in order
    calls,      \* the number of accessor calls of the session so far
    pending     \* what the latest transaction left unread in the transport,
                \* and whether it had succeeded

vars == <<L, unit_id, pc, op, reg, data, count, request, written, wire, rx,
          buff, zero_reads, last_read, exit, result, scaling, dev, fcall,
          fret, log, calls, pending>>

session == <<L, unit_id, scaling>>
call == <<op, reg, data, count, request, written>>
facade == <<dev, fcall, fret, log, calls>>
engine == <<L, unit_id, pc, op, reg, data, count, request, written, wire,
            rx, buff, zero_reads, last_read, exit, result, pending>>

\* the transport holds no unread bytes
Quiet == [bytes |-> <<>>, ok |-> FALSE]

\* XyRegister, the register map
XyRegister ==
    [VSet |-> 0, ISet |-> 1, VOut |-> 2, IOut |-> 3, Power |-> 4, UIn |-> 5,
     AhLow |-> 6, AhHigh |-> 7, WhLow |-> 8, WhHigh |-> 9, OutH |-> 10,
     OutM |-> 11, OutS |-> 12, TIn |-> 13, TEx |-> 14, Lock |-> 15,
     Protect |-> 16, CvCc |-> 17, OnOff |-> 18, FC |-> 19, BLed |-> 20,
     Sleep |-> 21, Model |-> 22, Version |-> 23, SlaveAdd |-> 24,
     BaudRateL |-> 25, TInOffset |-> 26, TExOffset |-> 27, Buzzer |-> 28,
     ExtractM |-> 29, Device |-> 30, MpptSw |-> 31, MpptK |-> 32,
     BatFul |-> 33, CwSw |-> 34, Cw |-> 35]

\* the preset groups whose register blocks the device model holds
Groups == {0, 3}

\* the register addresses of the device model
DeviceAddrs ==
    {XyRegister[r] : r \in DOMAIN XyRegister}
    \cup {address_in_group(o, g) : o \in 0..(XPO_COUNT - 1), g \in Groups}

\* a device of the given model, temperature unit and active group, awake
\* at address 1 with the output on at 5.00 V / 1.00 A for 1 h 2 min 3 s,
\* and empty preset blocks
Device(model, fc, group) ==
    [a \in DeviceAddrs |->
        CASE a = XyRegister.VSet -> 500
          [] a = XyRegister.ISet -> 100
          [] a = XyRegister.VOut -> 498
          [] a = XyRegister.IOut -> 50
          [] a = XyRegister.Power -> 249
          [] a = XyRegister.AhLow -> 51
          [] a = XyRegister.AhHigh -> 1
          [] a = XyRegister.WhLow -> 257
          [] a = XyRegister.WhHigh -> 2
          [] a = XyRegister.OutH -> 1
          [] a = XyRegister.OutM -> 2
          [] a = XyRegister.OutS -> 3
          [] a = XyRegister.TIn -> 296
          [] a = XyRegister.SlaveAdd -> 1
          [] a = XyRegister.Device -> 1
          [] a = XyRegister.OnOff -> 1
          [] a = XyRegister.FC -> fc
          [] a = XyRegister.Model -> model
          [] a = XyRegister.ExtractM -> group
          [] OTHER -> 0]

\* no scaled accessor has been called
NoCall == [name |-> "none", arg |-> <<>>]

\* the session and the bus before any scaled accessor is called
FacadeIdle ==
    /\ scaling = None
    /\ dev = Device(3607, 0, 0)
    /\ fcall = NoCall
    /\ fret = NoResult
    /\ log = <<>>
    /\ calls = 0

\* XyPsu::new; no transaction has been issued
Init ==
    /\ L \in Capacities
    /\ unit_id \in UnitIds
    /\ pc = "idle"
    /\ op = "none"
    /\ reg = 0
    /\ data = <<>>
    /\ count = 0
    /\ request = <<>>
    /\ written = <<>>
    /\ wire = <<>>
    /\ rx = <<>>
    /\ buff = <<>>
    /\ zero_reads = 0
    /\ last_read = "none"
    /\ exit = "none"
    /\ result = NoResult
    /\ pending = Quiet
    /\ FacadeIdle

\* generate the request into a Vec<u8, L> and write_all it, with `unread'
\* in the transport; one of `answers' arrives behind it
Transact(o, r, d, c, frame, unread, answers) ==
    /\ pc = "idle"
    /\ op' = o
    /\ reg' = r
    /\ data' = d
    /\ count' = c
    /\ rx' = <<>>
    /\ buff' = <<>>
    /\ zero_reads' = 0
    /\ last_read' = "none"
    /\ IF Len(frame) > L
       THEN \* the frame does not fit: generate_* fails, `?' returns
            /\ request' = <<>>
            /\ written' = <<>>
            /\ wire' = unread
            /\ pc' = "done"
            /\ exit' = "gen"
            /\ result' = Err("ModbusError", "OOB")
       ELSE /\ request' = frame
            /\ \/ \* write_all succeeds
                  /\ written' = frame
                  /\ wire' \in {unread \o w : w \in answers}
                  /\ pc' = after_write_all(TRUE)
                  /\ exit' = "none"
                  /\ result' = NoResult
               \/ \* write_all fails after k bytes
                  \E k \in 0..(Len(frame) - 1), e \in WriteErrors :
                     /\ written' = SubSeq(frame, 1, k)
                     /\ pc' = after_write_all(FALSE)
                     /\ wire' = unread
                     /\ exit' = "write"
                     /\ result' = write_error(e)

\* a transaction on a quiet line
Begin(o, r, d, c, frame) ==
    /\ Transact(o, r, d, c, frame, <<>>, Wires(o, unit_id, frame, c))
    /\ UNCHANGED <<session, facade, pending>>

write_modbus_single ==
    \E r \in Registers, v \in Values :
        Begin("write_single", r, <<v>>, 0, write_single_request(unit_id, r, v))

write_modbus_bulk ==
    \E r \in Registers, v \in Values, n \in 1..MaxCount :
        Begin("write_bulk", r, DeviceRegs(v, n), 0,
              write_bulk_request(unit_id, r, DeviceRegs(v, n)))

read_modbus_single ==
    \E r \in Registers :
        Begin("read_single", r, <<>>, 1, read_single_request(unit_id, r))

read_modbus_bulk ==
    \E r \in Registers, n \in 1..MaxCount :
        Begin("read_bulk", r, <<>>, n, read_bulk_request(unit_id, r, n))

\* variant: the error is recorded but the loop goes on reading
Abort_keeps_reading(how, res) ==
    /\ pc' = "reading"
    /\ exit' = how
    /\ result' = res
    /\ buff' = buff

\* leave the transaction with an error, without validating
Abort(how, res) ==
    /\ pc' = "done"
    /\ exit' = how
    /\ result' = res
    /\ buff' = buff

\* leave the loop and validate or decode the accumulated bytes
Leave(how, buf) ==
    /\ pc' = "done"
    /\ exit' = how
    /\ result' = finish(op, unit_id, count, request, buf)
    /\ buff' = buf

\* one pass of the loop in which interface.read returns Ok(n)
ReadOk ==
    /\ pc = "reading"
    /\ \E n \in 0..Len(wire) :
        /\ n <= temp_buf_len(op)
        /\ n = 0 => zero_reads < MaxZeroReads
        /\ LET chunk == SubSeq(wire, 1, n) IN
           /\ wire' = SubSeq(wire, n + 1, Len(wire))
           /\ rx' = rx \o chunk
           /\ zero_reads' = IF n = 0 THEN zero_reads + 1 ELSE zero_reads
           /\ last_read' = "Ok"
           /\ IF ~extend_fits(L, buff, chunk)
              THEN Abort("overflow", Err("BufferError", "none"))
              ELSE IF Len(buff \o chunk) >= loop_threshold(op, count)
                   THEN Leave("full", buff \o chunk)
                   ELSE /\ buff' = buff \o chunk
                        /\ UNCHANGED <<pc, exit, result>>
    /\ UNCHANGED <<session, facade, call, pending>>

\* one pass of the loop in which interface.read returns Err(e)
ReadErr ==
    /\ pc = "reading"
    /\ \E e \in ReadErrors :
        /\ last_read' = e
        /\ IF breaks_on_error(e, buff)
           THEN Leave("idle", buff)
           ELSE Abort("error", read_error(e))
    /\ UNCHANGED <<session, facade, call, wire, rx, zero_reads, pending>>

\* the call has returned; the session is ready for the next transaction
Returned ==
    /\ pc = "done"
    /\ pc' = "idle"
    /\ op' = "none"
    /\ reg' = 0
    /\ data' = <<>>
    /\ count' = 0
    /\ request' = <<>>
    /\ written' = <<>>
    /\ rx' = <<>>
    /\ buff' = <<>>
    /\ zero_reads' = 0
    /\ last_read' = "none"
    /\ exit' = "none"
    /\ result' = NoResult

\* the call has returned and the line has gone quiet
Return ==
    /\ Returned
    /\ wire' = <<>>
    /\ UNCHANGED <<session, facade, pending>>

Next ==
    \/ write_modbus_single
    \/ write_modbus_bulk
    \/ read_modbus_single
    \/ read_modbus_bulk
    \/ ReadOk
    \/ ReadErr
    \/ Return

Spec == Init /\ [][Next]_vars

\* one pass of the loop in which interface.read returns Ok(n), with no
\* limit on how often the transport answers Ok(0); the empty reads are
\* counted modulo MaxZeroReads + 1
ReadAny ==
    /\ pc = "reading"
    /\ \E n \in 0..Len(wire) :
        /\ n <= temp_buf_len(op)
        /\ LET chunk == SubSeq(wire, 1, n) IN
           /\ wire' = SubSeq(wire, n + 1, Len(wire))
           /\ rx' = rx \o chunk
           /\ zero_reads' = IF n = 0
                            THEN (zero_reads + 1) % (MaxZeroReads + 1)
                            ELSE zero_reads
           /\ last_read' = "Ok"
           /\ IF ~extend_fits(L, buff, chunk)
              THEN Abort("overflow", Err("BufferError", "none"))
              ELSE IF Len(buff \o chunk) >= loop_threshold(op, count)
                   THEN Leave("full", buff \o chunk)
                   ELSE /\ buff' = buff \o chunk
                        /\ UNCHANGED <<pc, exit, result>>
    /\ UNCHANGED <<session, facade, call, pending>>

NextLive ==
    \/ write_modbus_single
    \/ write_modbus_bulk
    \/ read_modbus_single
    \/ read_modbus_bulk
    \/ ReadAny
    \/ ReadErr
    \/ Return

\* the call is synchronous: while a transaction is in its loop the next
\* read is always issued; what the transport answers is not constrained
SpecLive == Init /\ [][NextLive]_vars /\ WF_vars(ReadAny \/ ReadErr)

\* ----------------------------------- consecutive transactions, one line
\* the transactions of one session
MaxSession == 2

\* what a device that holds v in every register puts on the line in answer
\* to a request: nothing, its response, or, on a bus that echoes, the
\* request and then its response
Answers(o, u, rq, v) ==
    LET resp == IF o = "write_single" THEN rq
                ELSE ReadResponse(u, DeviceRegs(v, 1))
    IN {<<>>, resp, rq \o resp}

\* the next transaction of the session: the transport still holds what the
\* earlier ones left unread
NextTransaction(o, r, d, c, frame, v) ==
    /\ calls < MaxSession
    /\ calls' = calls + 1
    /\ Transact(o, r, d, c, frame, wire, Answers(o, unit_id, frame, v))
    /\ UNCHANGED <<session, dev, fcall, fret, log, pending>>

\* the register addressed and the value written or held
SessionRegisters == {16}
SessionValues == {4660}

\* write_modbus_single, later in a session
write_modbus_single_next ==
    \E r \in SessionRegisters, v \in SessionValues :
        NextTransaction("write_single", r, <<v>>, 0,
                        write_single_request(unit_id, r, v), v)

\* read_modbus_single, later in a session
read_modbus_single_next ==
    \E r \in SessionRegisters, v \in SessionValues :
        NextTransaction("read_single", r, <<>>, 1,
                        read_single_request(unit_id, r), v)

\* the call has returned; what it did not read stays in the transport
ReturnUnread ==
    /\ Returned
    /\ wire' = wire
    /\ pending' = [bytes |-> wire, ok |-> result.tag = "Ok"]
    /\ UNCHANGED <<session, facade>>

\* XyPsu::new with buffers of 16 bytes, on a quiet line
InitSession ==
    /\ Init
    /\ L = 16
    /\ unit_id = 1

NextSession ==
    \/ write_modbus_single_next
    \/ read_modbus_single_next
    \/ ReadOk
    \/ ReadErr
    \/ ReturnUnread

SpecSession == InitSession /\ [][NextSession]_vars

TypeOK ==
    /\ pc \in {"idle", "reading", "done"}
    /\ Len(buff) <= L
    /\ zero_reads <= MaxZeroReads

\* ------------------------------------------- conversions, applied alone
\* voltages and currents the setters are called with
Millivolts == <<u32(12340), u32(700000)>>
Milliamps == <<u32(1500), u32(700000)>>

\* capacity of the buffers when the const generic L is left at its default
DefaultL == 128

\* no transaction is in progress
EngineIdle ==
    /\ pc = "idle"
    /\ op = "none"
    /\ reg = 0
    /\ data = <<>>
    /\ count = 0
    /\ request = <<>>
    /\ written = <<>>
    /\ wire = <<>>
    /\ rx = <<>>
    /\ buff = <<>>
    /\ zero_reads = 0
    /\ last_read = "none"
    /\ exit = "none"
    /\ result = NoResult
    /\ pending = Quiet

\* divisors, raw register values and physical values the conversions are
\* applied to
Divisors == {1, 10, 100, 1000, 65537, 65538, 100000}
RawValues == {0, 1, 1234, 32768, 65535}
PhysicalValues ==
    <<u32(0), u32(12340), u32(12345), u32(655350), u32(655360), u32(700000),
      [hi |-> 65535, lo |-> 65535]>>
Quantities == {"voltage", "current", "power"}

\* the divisor of a quantity
divisor_of(q, sf) ==
    CASE q = "voltage" -> sf.voltage_divisor
      [] q = "current" -> sf.current_divisor
      [] q = "power"   -> sf.power_divisor

\* raw_to_voltage_mv, raw_to_current_ma, raw_to_power_mw
raw_to_physical(q, sf, raw) ==
    CASE q = "voltage" -> raw_to_voltage_mv(sf, raw)
      [] q = "current" -> raw_to_current_ma(sf, raw)
      [] q = "power"   -> raw_to_power_mw(sf, raw)

\* voltage_mv_to_raw, current_ma_to_raw, power_mw_to_raw
physical_to_raw(q, sf, physical) ==
    CASE q = "voltage" -> voltage_mv_to_raw(sf, physical)
      [] q = "current" -> current_ma_to_raw(sf, physical)
      [] q = "power"   -> power_mw_to_raw(sf, physical)

\* what a computation returns: an arithmetic overflow panics in a build
\* with overflow checks and wraps in a build without
overflow_outcome(m, checked) ==
    IF m.ovf /\ checked THEN Err("Panic", "none") ELSE Ok(m.val)

\* a conversion applied in the fresh session; it touches neither the
\* session nor the bus
Pure(f, x, res) ==
    /\ fcall = NoCall
    /\ fcall' = [name |-> f, arg |-> x]
    /\ fret' = res
    /\ UNCHANGED <<engine, scaling, dev, log, calls>>

RawToPhysical ==
    \E q \in Quantities, v \in Divisors, c \in Divisors, raw \in RawValues,
       checked \in BOOLEAN :
        LET sf == ScalingFactors(v, c, v, c, c) IN
        Pure("raw_to_physical", [q |-> q, sf |-> sf, raw |-> raw],
             overflow_outcome(raw_to_physical(q, sf, raw), checked))

PhysicalToRaw ==
    \E q \in Quantities, v \in Divisors, c \in Divisors,
       i \in 1..Len(PhysicalValues) :
        LET sf == ScalingFactors(v, c, v, c, c)
            physical == PhysicalValues[i]
        IN
        Pure("physical_to_raw", [q |-> q, sf |-> sf, physical |-> physical],
             Ok(physical_to_raw(q, sf, physical)))

\* XyPresetOffsets::address_in_group for every register and group
AddressInGroup ==
    \E o \in 0..(XPO_COUNT - 1), g \in 0..9 :
        Pure("address_in_group", [offset |-> o, group |-> g],
             Ok(address_in_group(o, g)))

\* largest Celsius and Fahrenheit values the conversions are applied to
MaxCelsius == 740
MaxFahrenheit == 1400

\* Temperature::as_fahrenheit
AsFahrenheit ==
    \E c \in 0..MaxCelsius, unit \in {"Celsius", "Fahrenheit"},
       checked \in BOOLEAN :
        LET t == IF unit = "Celsius" THEN Celsius(c) ELSE Fahrenheit(70) IN
        Pure("as_fahrenheit", t, overflow_outcome(as_fahrenheit(t), checked))

\* Temperature::as_celsius
AsCelsius ==
    \E f \in 0..MaxFahrenheit, unit \in {"Celsius", "Fahrenheit"},
       checked \in BOOLEAN :
        LET t == IF unit = "Fahrenheit" THEN Fahrenheit(f) ELSE Celsius(21) IN
        Pure("as_celsius", t, overflow_outcome(as_celsius(t), checked))

\* register values in tenths of a degree
CentiValues == {0, 4, 5, 294, 296, 65529, 65535}

\* Temperature::from_centi
FromCenti ==
    \E value \in CentiValues, unit \in {"Celsius", "Fahrenheit"} :
        Pure("from_centi", [value |-> value, unit |-> unit],
             Ok(from_centi(value, unit)))

\* the single-value ProtectionStatus of types.rs, in the order of its codes
ProtectionStatusVariants ==
    <<"AlarmCode", "OverVoltage", "OverCurrent", "OverPower",
      "InputUndervoltageProtection", "MaximumOutputCapacity",
      "MaximumOutputTime", "OverTemperature", "NoOutput",
      "MaximumEnergyOutput", "MaximumInputCurrent", "ExternalTemperature">>

\* `status as u16'
ProtectionStatus_as_u16(status) ==
    CHOOSE c \in 0..(Len(ProtectionStatusVariants) - 1) :
        ProtectionStatusVariants[c + 1] = status

\* ProtectionStatus::MAX_VALUE
MAX_VALUE == ProtectionStatus_as_u16("ExternalTemperature")

\* variant: only the codes of the variants are decoded
ProtectionStatus_from_known(value) ==
    IF value < Len(ProtectionStatusVariants)
    THEN Ok(ProtectionStatusVariants[value + 1])
    ELSE Err("Panic", "none")

\* ProtectionStatus::from(u16)
ProtectionStatus_from(value) ==
    IF value <= MAX_VALUE
    THEN IF value \in 0..11 THEN Ok(ProtectionStatusVariants[value + 1])
         ELSE Err("Panic", "none")
    ELSE Ok("AlarmCode")

\* register values the protection status is decoded from
StatusCodes == 0..13 \cup {255, 256, 65535}

ProtectionStatusFrom ==
    \E value \in StatusCodes :
        Pure("ProtectionStatus_from", value, ProtectionStatus_from(value))

\* ProtectionConfig::default()
DefaultProtection ==
    ProtectionConfig(u32(0), u32(99999), 9999, u32(99999), 999 * 3600,
                     u32(99999), u32(99999), Celsius(100))

\* protection settings the encoder and set_protections are given
Protections ==
    << DefaultProtection,
      ProtectionConfig(u32(11000), u32(15000), 2000, u32(50000), 4200,
                       u32(1000), u32(5000), Celsius(60)),
      ProtectionConfig(u32(11000), u32(700000), 2000, u32(50000), 3600,
                       u32(100000), u32(200000), Fahrenheit(140)) >>

\* what generate_write_data_and_offset returns to its caller
encoder_outcome(e, checked) ==
    IF e.panic \/ (e.ovf /\ checked) THEN Err("Panic", "none")
    ELSE Ok([start_address |-> e.start_address,
             write_buffer |-> e.write_buffer])

\* over-time thresholds, in seconds: whole minutes and not, up to the
\* first whose hour count does not fit 16 bits
Durations ==
    {0, 59 * 60, 3600, 4200, 4230, 999 * 3600, 65535 * 3600 + 59 * 60,
     65536 * 3600}

\* XyPreset::generate_write_data_and_offset
GenerateWriteData ==
    \E g \in 0..9, i \in 1..Len(Millivolts), j \in 1..Len(Protections),
       t \in Durations, en \in {0, 1},
       unit \in {"Celsius", "Fahrenheit"}, checked \in BOOLEAN :
        LET preset == XyPreset(g, Millivolts[i], 1000,
                               [Protections[j] EXCEPT !.over_time = t], en)
        IN
        Pure("generate_write_data_and_offset",
             [preset |-> preset, temperature_unit |-> unit],
             encoder_outcome(generate_write_data_and_offset(preset, unit),
                             checked))

InitUnits ==
    /\ L = DefaultL
    /\ unit_id = 1
    /\ EngineIdle
    /\ FacadeIdle

NextUnits ==
    \/ RawToPhysical
    \/ PhysicalToRaw
    \/ AddressInGroup
    \/ AsFahrenheit
    \/ AsCelsius
    \/ GenerateWriteData
    \/ FromCenti
    \/ ProtectionStatusFrom

SpecUnits == InitUnits /\ [][NextUnits]_vars

\* ------------------------------------------------- the scaled accessors
\* Each accessor is one step: its transactions are issued in order against
\* a device that stores what is written; `log' keeps them with their
\* outcomes.  The transaction at position `fail' of the call (0: none)
\* fails with the error `err'.
ReadOf(addr, n) ==
    [regs |-> n, addr |-> addr, kind |-> "read", outcome |-> "Ok"]
WriteOf(addr, values) ==
    [regs |-> values, addr |-> addr, kind |-> "write", outcome |-> "Ok"]

\* the errors a transaction returns (Result of the engine)
TransactionErrors == {"Timeout", "InvalidResponse"}

\* the values of the model register get_product_model recognises
RecognisedModels == {12522, 7025, 3607}

\* the registers a bulk read of n registers from `addr' on returns
load(d, addr, n) ==
    [i \in 1..n |-> IF addr + i - 1 \in DOMAIN d THEN d[addr + i - 1] ELSE 0]

\* the device after a bulk write of `values' from `addr' on
store(d, addr, values) ==
    [a \in DOMAIN d |->
        IF a >= addr /\ a < addr + Len(values) THEN values[a - addr + 1]
        ELSE d[a]]

\* read_modbus_single / read_modbus_bulk as the accessors see it, issued
\* as transaction number `at' of the call: the transaction and its result
read_registers(d, addr, n, at, fail, err) ==
    IF fail = at
    THEN [log |-> <<[ReadOf(addr, n) EXCEPT !.outcome = err]>>,
          res |-> Err(err, "none")]
    ELSE [log |-> <<ReadOf(addr, n)>>, res |-> Ok(load(d, addr, n))]

read_register(d, addr, at, fail, err) ==
    IF fail = at
    THEN [log |-> <<[ReadOf(addr, 1) EXCEPT !.outcome = err]>>,
          res |-> Err(err, "none")]
    ELSE [log |-> <<ReadOf(addr, 1)>>, res |-> Ok(d[addr])]

\* write_modbus_single / write_modbus_bulk as the accessors see it; a
\* transaction that fails at at + 1 was applied by the device before its
\* response was lost
write_registers(d, addr, values, at, fail, err) ==
    IF fail = at
    THEN [regs |-> d,
          log |-> <<[WriteOf(addr, values) EXCEPT !.outcome = err]>>,
          res |-> Err(err, "none")]
    ELSE IF fail = at + 1
    THEN [regs |-> store(d, addr, values),
          log |-> <<[WriteOf(addr, values) EXCEPT !.outcome = err]>>,
          res |-> Err(err, "none")]
    ELSE [regs |-> store(d, addr, values),
          log |-> <<WriteOf(addr, values)>>,
          res |-> Ok(<<>>)]

\* variant: a failed read of the model register is taken as XY3607F
get_product_model_or_default(d, at, fail, err) ==
    LET r == read_register(d, XyRegister.Model, at, fail, err) IN
    IF r.res.tag # "Ok" THEN [log |-> r.log, res |-> Ok(3607)]
    ELSE IF r.res.val \notin RecognisedModels
         THEN [log |-> r.log, res |-> Err("Panic", "none")]
         ELSE r

\* get_product_model
get_product_model(d, at, fail, err) ==
    LET r == read_register(d, XyRegister.Model, at, fail, err) IN
    IF r.res.tag # "Ok" THEN r
    ELSE IF r.res.val \notin RecognisedModels
         THEN [log |-> r.log, res |-> Err("Panic", "none")]
         ELSE r

\* variant: the model is looked up on every call
ensure_scaling_uncached(s, d, fail, err) ==
    LET model == get_product_model(d, 1, fail, err) IN
    IF model.res.tag # "Ok" THEN model
    ELSE IF scaling_factors(model.res.val) = None
         THEN [log |-> model.log, res |-> Err("ScalingNotAvailable", "none")]
         ELSE [log |-> model.log,
               res |-> Ok(scaling_factors(model.res.val)[1])]

\* ensure_scaling, the first step of every scaled accessor: the cached
\* factors, or the factors of the model read from the device
ensure_scaling(s, d, fail, err) ==
    IF s # None THEN [log |-> <<>>, res |-> Ok(s[1])]
    ELSE LET model == get_product_model(d, 1, fail, err) IN
         IF model.res.tag # "Ok" THEN model
         ELSE IF scaling_factors(model.res.val) = None
              THEN [log |-> model.log,
                    res |-> Err("ScalingNotAvailable", "none")]
              ELSE [log |-> model.log,
                    res |-> Ok(scaling_factors(model.res.val)[1])]

\* get_active_preset
get_active_preset(d, at, fail, err) ==
    LET r == read_register(d, XyRegister.ExtractM, at, fail, err) IN
    IF r.res.tag # "Ok" THEN r
    ELSE IF PresetGroup(r.res.val) = None
         THEN [log |-> r.log, res |-> Err("Other", "none")]
         ELSE [log |-> r.log, res |-> Ok(PresetGroup(r.res.val)[1])]

\* variant: a failed read of the unit falls back to Celsius
get_temperature_unit_or_default(d, at, fail, err) ==
    LET r == read_register(d, XyRegister.FC, at, fail, err) IN
    IF r.res.tag # "Ok" THEN [log |-> r.log, res |-> Ok("Celsius")]
    ELSE IF TemperatureUnit(r.res.val) = "Err"
         THEN [log |-> r.log, res |-> Err("Other", "none")]
         ELSE [log |-> r.log, res |-> Ok(TemperatureUnit(r.res.val))]

\* get_temperature_unit
get_temperature_unit(d, at, fail, err) ==
    LET r == read_register(d, XyRegister.FC, at, fail, err) IN
    IF r.res.tag # "Ok" THEN r
    ELSE IF TemperatureUnit(r.res.val) = "Err"
         THEN [log |-> r.log, res |-> Err("Other", "none")]
         ELSE [log |-> r.log, res |-> Ok(TemperatureUnit(r.res.val))]

\* what an accessor leaves behind: its result, the cached factors, the
\* device registers and the transactions issued
Outcome(res, sf, d, lg) == [regs |-> d, sf |-> sf, log |-> lg, res |-> res]

\* read_output_voltage_mv
read_output_voltage_mv_of(s, d, checked, fail, err) ==
    LET es == ensure_scaling(s, d, fail, err)
        sf == es.res.val
        r == read_register(d, XyRegister.VOut, Len(es.log) + 1, fail, err)
        mv == raw_to_voltage_mv(sf, r.res.val)
    IN IF es.res.tag # "Ok" THEN Outcome(es.res, s, d, es.log)
       ELSE IF r.res.tag # "Ok"
            THEN Outcome(r.res, Some(sf), d, es.log \o r.log)
       ELSE IF mv.ovf /\ checked
            THEN Outcome(Err("Panic", "none"), Some(sf), d, es.log \o r.log)
       ELSE Outcome(Ok(mv.val), Some(sf), d, es.log \o r.log)

\* set_output_voltage_mv / set_current_limit_ma
set_scaled(q, s, d, physical, fail, err) ==
    LET es == ensure_scaling(s, d, fail, err)
        sf == es.res.val
        raw == physical_to_raw(q, sf, physical)
        a == IF q = "voltage" THEN XyRegister.VSet ELSE XyRegister.ISet
        w == write_registers(d, a, <<raw>>, Len(es.log) + 1, fail, err)
    IN IF es.res.tag # "Ok" THEN Outcome(es.res, s, d, es.log)
       ELSE Outcome(w.res, Some(sf), w.regs, es.log \o w.log)

\* set_protections
set_protections_of(s, d, p, checked, fail, err) ==
    LET es == ensure_scaling(s, d, fail, err)
        sf == es.res.val
        n == Len(es.log)
        group == get_active_preset(d, n + 1, fail, err)
        set_voltage_raw == read_register(d, XyRegister.VSet, n + 2, fail, err)
        set_current_raw == read_register(d, XyRegister.ISet, n + 3, fail, err)
        set_voltage == raw_to_voltage_mv(sf, set_voltage_raw.res.val)
        set_current == raw_to_current_ma(sf, set_current_raw.res.val)
        set_output_state == read_register(d, XyRegister.OnOff, n + 4,
                                          fail, err)
        preset == XyPreset(group.res.val, set_voltage.val,
                           as_u16(set_current.val), p,
                           IF set_output_state.res.val # 0 THEN 1 ELSE 0)
        temp_unit == get_temperature_unit(d, n + 5, fail, err)
        e == generate_write_data_and_offset(preset, temp_unit.res.val)
        w == write_registers(d, e.start_address, e.write_buffer, n + 6,
                             fail, err)
        l1 == es.log \o group.log
        l2 == l1 \o set_voltage_raw.log
        l3 == l2 \o set_current_raw.log
        l4 == l3 \o set_output_state.log
        l5 == l4 \o temp_unit.log
    IN IF es.res.tag # "Ok" THEN Outcome(es.res, s, d, es.log)
       ELSE IF group.res.tag # "Ok" THEN Outcome(group.res, Some(sf), d, l1)
       ELSE IF set_voltage_raw.res.tag # "Ok"
            THEN Outcome(set_voltage_raw.res, Some(sf), d, l2)
       ELSE IF set_current_raw.res.tag # "Ok"
            THEN Outcome(set_current_raw.res, Some(sf), d, l3)
       ELSE IF (set_voltage.ovf \/ set_current.ovf) /\ checked
            THEN Outcome(Err("Panic", "none"), Some(sf), d, l3)
       ELSE IF set_output_state.res.tag # "Ok"
            THEN Outcome(set_output_state.res, Some(sf), d, l4)
       ELSE IF temp_unit.res.tag # "Ok"
            THEN Outcome(temp_unit.res, Some(sf), d, l5)
       ELSE IF e.panic \/ (e.ovf /\ checked)
            THEN Outcome(Err("Panic", "none"), Some(sf), d, l5)
       ELSE Outcome(w.res, Some(sf), w.regs, l5 \o w.log)

\* get_protections
get_protections_of(s, d, checked, fail, err) ==
    LET es == ensure_scaling(s, d, fail, err)
        sf == es.res.val
        n == Len(es.log)
        group == get_active_preset(d, n + 1, fail, err)
        start_address == address_in_group(XPO.SLvp, group.res.val)
        registers == read_registers(d, start_address, 13, n + 2, fail, err)
        temp_unit == get_temperature_unit(d, n + 3, fail, err)
        c == decode_protections(sf, registers.res.val, temp_unit.res.val)
        l1 == es.log \o group.log
        l2 == l1 \o registers.log
        l3 == l2 \o temp_unit.log
    IN IF es.res.tag # "Ok" THEN Outcome(es.res, s, d, es.log)
       ELSE IF group.res.tag # "Ok" THEN Outcome(group.res, Some(sf), d, l1)
       ELSE IF registers.res.tag # "Ok"
            THEN Outcome(registers.res, Some(sf), d, l2)
       ELSE IF temp_unit.res.tag # "Ok"
            THEN Outcome(temp_unit.res, Some(sf), d, l3)
       ELSE IF c.ovf /\ checked
            THEN Outcome(Err("Panic", "none"), Some(sf), d, l3)
       ELSE Outcome(Ok(c.val), Some(sf), d, l3)

\* scaling factors a caller supplies: the documented example, and
\* ScalingFactors::default()
ScalingChoices ==
    <<ScalingFactors(10, 10, 100, 10, 10), ScalingFactors(1, 1, 1, 1, 1)>>

\* values of the model register of the devices explored
ModelIds == {3607, 6506, 7025}

\* values of the active-preset register of the devices explored
ActiveValues == {0, 3, 10}

\* the transactions of one accessor call, and one more for a write whose
\* response is lost
MaxTransactions == 8

\* the accessor calls of one session
MaxCalls == 2

\* one accessor call, from its outcome
Facade(f, x, out) ==
    /\ calls < MaxCalls
    /\ calls' = calls + 1
    /\ fcall' = [name |-> f, arg |-> x]
    /\ fret' = out.res
    /\ scaling' = out.sf
    /\ dev' = out.regs
    /\ log' = out.log
    /\ UNCHANGED engine

set_scaling_factors ==
    \E i \in 1..Len(ScalingChoices) :
        Facade("set_scaling_factors", ScalingChoices[i],
               Outcome(Ok(<<>>), Some(ScalingChoices[i]), dev, <<>>))

read_output_voltage_mv ==
    \E checked \in BOOLEAN, fail \in 0..MaxTransactions,
       err \in TransactionErrors :
        Facade("read_output_voltage_mv", <<>>,
               read_output_voltage_mv_of(scaling, dev, checked, fail, err))

set_output_voltage_mv ==
    \E i \in 1..Len(Millivolts), fail \in 0..MaxTransactions,
       err \in TransactionErrors :
        Facade("set_output_voltage_mv", Millivolts[i],
               set_scaled("voltage", scaling, dev, Millivolts[i], fail, err))

set_current_limit_ma ==
    \E i \in 1..Len(Milliamps), fail \in 0..MaxTransactions,
       err \in TransactionErrors :
        Facade("set_current_limit_ma", Milliamps[i],
               set_scaled("current", scaling, dev, Milliamps[i], fail, err))

set_protections ==
    \E i \in 1..Len(Protections), checked \in BOOLEAN,
       fail \in 0..MaxTransactions, err \in TransactionErrors :
        Facade("set_protections", Protections[i],
               set_protections_of(scaling, dev, Protections[i], checked,
                                  fail, err))

get_protections ==
    \E checked \in BOOLEAN, fail \in 0..MaxTransactions,
       err \in TransactionErrors :
        Facade("get_protections", <<>>,
               get_protections_of(scaling, dev, checked, fail, err))

InitFacade ==
    /\ L = DefaultL
    /\ unit_id = 1
    /\ EngineIdle
    /\ scaling = None
    /\ dev \in {Device(m, fc, g) : m \in ModelIds, fc \in {0, 1}, g \in ActiveValues}
    /\ fcall = NoCall
    /\ fret = NoResult
    /\ log = <<>>
    /\ calls = 0

NextFacade ==
    \/ set_scaling_factors
    \/ read_output_voltage_mv
    \/ set_output_voltage_mv
    \/ set_current_limit_ma
    \/ set_protections
    \/ get_protections

SpecFacade == InitFacade /\ [][NextFacade]_vars

\* ------------------------------------------- the unscaled accessors
\* State: Off = 0x00, On = 0x01
States == {"Off", "On"}

\* State as u16
State_as_u16(state) == IF state = "On" THEN 1 ELSE 0

\* State::from(bool)
State_from(b) == IF b THEN "On" ELSE "Off"

\* impl Not for State
State_not(state) == IF state = "On" THEN "Off" ELSE "On"

\* write_modbus_single(register, value)?; Ok(())
write_one(s, d, addr, value, fail, err) ==
    LET w == write_registers(d, addr, <<value>>, 1, fail, err)
    IN Outcome(w.res, s, w.regs, w.log)

\* read_modbus_single(register)?; Ok(State::from(value != 0))
read_state(s, d, addr, fail, err) ==
    LET r == read_register(d, addr, 1, fail, err)
    IN IF r.res.tag # "Ok" THEN Outcome(r.res, s, d, r.log)
       ELSE Outcome(Ok(State_from(r.res.val # 0)), s, d, r.log)

\* set_slave_address: assert!(address <= 247), then the write
set_slave_address_of(s, d, address, fail, err) ==
    IF ~(address <= 247) THEN Outcome(Err("Panic", "none"), s, d, <<>>)
    ELSE write_one(s, d, XyRegister.SlaveAdd, address, fail, err)

\* variant: the power is taken from the output-current register
read_power_mw_from_current(s, d, checked, fail, err) ==
    LET es == ensure_scaling(s, d, fail, err)
        sf == es.res.val
        r == read_register(d, XyRegister.IOut, Len(es.log) + 1, fail, err)
        mw == raw_to_power_mw(sf, r.res.val)
    IN IF es.res.tag # "Ok" THEN Outcome(es.res, s, d, es.log)
       ELSE IF r.res.tag # "Ok"
            THEN Outcome(r.res, Some(sf), d, es.log \o r.log)
       ELSE IF mw.ovf /\ checked
            THEN Outcome(Err("Panic", "none"), Some(sf), d, es.log \o r.log)
       ELSE Outcome(Ok(mw.val), Some(sf), d, es.log \o r.log)

\* read_power_mw
read_power_mw_of(s, d, checked, fail, err) ==
    LET es == ensure_scaling(s, d, fail, err)
        sf == es.res.val
        r == read_register(d, XyRegister.Power, Len(es.log) + 1, fail, err)
        mw == raw_to_power_mw(sf, r.res.val)
    IN IF es.res.tag # "Ok" THEN Outcome(es.res, s, d, es.log)
       ELSE IF r.res.tag # "Ok"
            THEN Outcome(r.res, Some(sf), d, es.log \o r.log)
       ELSE IF mw.ovf /\ checked
            THEN Outcome(Err("Panic", "none"), Some(sf), d, es.log \o r.log)
       ELSE Outcome(Ok(mw.val), Some(sf), d, es.log \o r.log)

\* lower + (upper << 16) of two registers read low half first
read_halves(s, d, low, high, fail, err) ==
    LET lower == read_register(d, low, 1, fail, err)
        upper == read_register(d, high, 2, fail, err)
    IN IF lower.res.tag # "Ok" THEN Outcome(lower.res, s, d, lower.log)
       ELSE IF upper.res.tag # "Ok"
            THEN Outcome(upper.res, s, d, lower.log \o upper.log)
       ELSE Outcome(Ok([hi |-> upper.res.val, lo |-> lower.res.val]), s, d,
                    lower.log \o upper.log)

\* variant: the three registers are read whatever the earlier reads gave
read_output_time_unconditional(s, d, fail, err) ==
    LET time_h == read_register(d, XyRegister.OutH, 1, fail, err)
        time_m == read_register(d, XyRegister.OutM, 2, fail, err)
        time_s == read_register(d, XyRegister.OutS, 3, fail, err)
        l3 == (time_h.log \o time_m.log) \o time_s.log
    IN IF time_h.res.tag # "Ok" THEN Outcome(time_h.res, s, d, l3)
       ELSE IF time_m.res.tag # "Ok" THEN Outcome(time_m.res, s, d, l3)
       ELSE IF time_s.res.tag # "Ok" THEN Outcome(time_s.res, s, d, l3)
       ELSE Outcome(Ok(u32(time_h.res.val * 3600 + time_m.res.val * 60
                           + time_s.res.val)), s, d, l3)

\* read_output_time: hours + minutes + seconds, as seconds
read_output_time_of(s, d, fail, err) ==
    LET time_h == read_register(d, XyRegister.OutH, 1, fail, err)
        time_m == read_register(d, XyRegister.OutM, 2, fail, err)
        time_s == read_register(d, XyRegister.OutS, 3, fail, err)
        l2 == time_h.log \o time_m.log
    IN IF time_h.res.tag # "Ok" THEN Outcome(time_h.res, s, d, time_h.log)
       ELSE IF time_m.res.tag # "Ok" THEN Outcome(time_m.res, s, d, l2)
       ELSE IF time_s.res.tag # "Ok"
            THEN Outcome(time_s.res, s, d, l2 \o time_s.log)
       ELSE Outcome(Ok(u32(time_h.res.val * 3600 + time_m.res.val * 60
                           + time_s.res.val)), s, d, l2 \o time_s.log)

\* read_temperature_internal
read_temperature_internal_of(s, d, fail, err) ==
    LET unit == get_temperature_unit(d, 1, fail, err)
        temp_internal_raw == read_register(d, XyRegister.TIn, 2, fail, err)
    IN IF unit.res.tag # "Ok" THEN Outcome(unit.res, s, d, unit.log)
       ELSE IF temp_internal_raw.res.tag # "Ok"
            THEN Outcome(temp_internal_raw.res, s, d,
                         unit.log \o temp_internal_raw.log)
       ELSE Outcome(Ok(from_centi(temp_internal_raw.res.val, unit.res.val)),
                    s, d, unit.log \o temp_internal_raw.log)

set_lock_state ==
    \E state \in States, fail \in 0..MaxTransactions,
       err \in TransactionErrors :
        Facade("set_lock_state", state,
               write_one(scaling, dev, XyRegister.Lock, State_as_u16(state),
                         fail, err))

get_lock_state ==
    \E fail \in 0..MaxTransactions, err \in TransactionErrors :
        Facade("get_lock_state", <<>>,
               read_state(scaling, dev, XyRegister.Lock, fail, err))

set_output_state ==
    \E state \in States, fail \in 0..MaxTransactions,
       err \in TransactionErrors :
        Facade("set_output_state", state,
               write_one(scaling, dev, XyRegister.OnOff, State_as_u16(state),
                         fail, err))

get_output_state ==
    \E fail \in 0..MaxTransactions, err \in TransactionErrors :
        Facade("get_output_state", <<>>,
               read_state(scaling, dev, XyRegister.OnOff, fail, err))

set_buzzer_enabled ==
    \E state \in States, fail \in 0..MaxTransactions,
       err \in TransactionErrors :
        Facade("set_buzzer_enabled", state,
               write_one(scaling, dev, XyRegister.Buzzer, State_as_u16(state),
                         fail, err))

get_buzzer_enabled ==
    \E fail \in 0..MaxTransactions, err \in TransactionErrors :
        Facade("get_buzzer_enabled", <<>>,
               read_state(scaling, dev, XyRegister.Buzzer, fail, err))

set_mppt_enabled ==
    \E state \in States, fail \in 0..MaxTransactions,
       err \in TransactionErrors :
        Facade("set_mppt_enabled", state,
               write_one(scaling, dev, XyRegister.MpptSw, State_as_u16(state),
                         fail, err))

get_mppt_enabled ==
    \E fail \in 0..MaxTransactions, err \in TransactionErrors :
        Facade("get_mppt_enabled", <<>>,
               read_state(scaling, dev, XyRegister.MpptSw, fail, err))

set_constant_power_enabled ==
    \E state \in States, fail \in 0..MaxTransactions,
       err \in TransactionErrors :
        Facade("set_constant_power_enabled", state,
               write_one(scaling, dev, XyRegister.CwSw, State_as_u16(state),
                         fail, err))

get_constant_power_enabled ==
    \E fail \in 0..MaxTransactions, err \in TransactionErrors :
        Facade("get_constant_power_enabled", <<>>,
               read_state(scaling, dev, XyRegister.CwSw, fail, err))

\* set_sleep_state: the Device register holds 0 asleep and 1 awake
set_sleep_state ==
    \E activate_sleep \in States, fail \in 0..MaxTransactions,
       err \in TransactionErrors :
        Facade("set_sleep_state", activate_sleep,
               write_one(scaling, dev, XyRegister.Device,
                         State_as_u16(State_not(activate_sleep)), fail, err))

get_sleep_state ==
    \E fail \in 0..MaxTransactions, err \in TransactionErrors :
        Facade("get_sleep_state", <<>>,
               read_state(scaling, dev, XyRegister.Device, fail, err))

\* addresses set_slave_address is given
SlaveAddresses == {0, 1, 247, 248, 255}

set_slave_address ==
    \E address \in SlaveAddresses, fail \in 0..MaxTransactions,
       err \in TransactionErrors :
        Facade("set_slave_address", address,
               set_slave_address_of(scaling, dev, address, fail, err))

read_power_mw ==
    \E checked \in BOOLEAN, fail \in 0..MaxTransactions,
       err \in TransactionErrors :
        Facade("read_power_mw", <<>>,
               read_power_mw_of(scaling, dev, checked, fail, err))

read_energy_mwh ==
    \E fail \in 0..MaxTransactions, err \in TransactionErrors :
        Facade("read_energy_mwh", <<>>,
               read_halves(scaling, dev, XyRegister.WhLow, XyRegister.WhHigh,
                           fail, err))

read_capacity_mah ==
    \E fail \in 0..MaxTransactions, err \in TransactionErrors :
        Facade("read_capacity_mah", <<>>,
               read_halves(scaling, dev, XyRegister.AhLow, XyRegister.AhHigh,
                           fail, err))

read_output_time ==
    \E fail \in 0..MaxTransactions, err \in TransactionErrors :
        Facade("read_output_time", <<>>,
               read_output_time_of(scaling, dev, fail, err))

read_temperature_internal ==
    \E fail \in 0..MaxTransactions, err \in TransactionErrors :
        Facade("read_temperature_internal", <<>>,
               read_temperature_internal_of(scaling, dev, fail, err))

\* a fresh session on a device of a known or an unknown model
InitAccessors ==
    /\ L = DefaultL
    /\ unit_id = 1
    /\ EngineIdle
    /\ scaling = None
    /\ dev \in {Device(m, fc, 3) : m \in {3607, 6506}, fc \in {0, 1}}
    /\ fcall = NoCall
    /\ fret = NoResult
    /\ log = <<>>
    /\ calls = 0

NextAccessors ==
    \/ set_lock_state
    \/ get_lock_state
    \/ set_output_state
    \/ get_output_state
    \/ set_buzzer_enabled
    \/ get_buzzer_enabled
    \/ set_mppt_enabled
    \/ get_mppt_enabled
    \/ set_constant_power_enabled
    \/ get_constant_power_enabled
    \/ set_sleep_state
    \/ get_sleep_state
    \/ set_slave_address
    \/ read_power_mw
    \/ read_energy_mwh
    \/ read_capacity_mah
    \/ read_output_time
    \/ read_temperature_internal
    \/ set_protections
    \/ get_protections

SpecAccessors == InitAccessors /\ [][NextAccessors]_vars

\* ================================================================ claims
\* the request of the transaction in progress has been generated
Issued(o) == op = o /\ pc # "idle" /\ exit # "gen"

\* the loop was left by a break, so the buffer went to validation/decoding
Validated == pc = "done" /\ exit \in {"full", "idle"}

\* C1: write_modbus_single transmits exactly the 8 bytes
\* [u, 0x06, a_hi, a_lo, v_hi, v_lo, crc_lo, crc_hi], the CRC being the
\* CRC16/Modbus of the first six; bytes 2..5 decode back to (a, v); and
\* u = 0x01, a = 0x10, v = 0x1234 gives 01 06 00 10 12 34 85 78.
C1_WriteSingleFrame ==
    Issued("write_single") =>
        /\ Len(request) = 8
        /\ request[1] = unit_id
        /\ request[2] = 6
        /\ U16(request[3], request[4]) = reg
        /\ U16(request[5], request[6]) = data[1]
        /\ U16(request[8], request[7]) = calc_crc16(SubSeq(request, 1, 6))
        /\ calc_crc16(request) = 0
        /\ \A i \in 1..8 : request[i] \in 0..255
        /\ pc = "reading" => written = request
        /\ (unit_id = 1 /\ reg = 16 /\ data = <<4660>>)
              => request = <<1, 6, 0, 16, 18, 52, 133, 120>>

C1_Witness ==
    /\ op = "write_single" /\ pc = "reading"
    /\ unit_id = 1 /\ reg = 16 /\ data = <<4660>>
    /\ written = <<1, 6, 0, 16, 18, 52, 133, 120>>

\* a complete, CRC-correct response carrying one register
ValidSingleResponse(u, b) ==
    /\ Len(b) = 7
    /\ b[1] = u /\ b[2] = 3 /\ b[3] = 2
    /\ U16(b[7], b[6]) = calc_crc16(SubSeq(b, 1, 5))

\* C2: read_modbus_single(r) transmits [unit_id, 0x03, r_hi, r_lo, 0x00,
\* 0x01, crc_lo, crc_hi]; when the transport then delivers a CRC-correct
\* 7-byte response [unit_id, 0x03, 0x02, d_hi, d_lo, crc] followed by the
\* no-data signal, the call returns d_hi*256 + d_lo (01 03 00 20 00 01 85 C0
\* answered by 01 03 02 56 78 87 C6 gives 0x5678).
C2_ReadSingleValue ==
    Issued("read_single") =>
        /\ request = <<unit_id, 3, reg \div 256, reg % 256, 0, 1,
                       calc_crc16(<<unit_id, 3, reg \div 256, reg % 256, 0, 1>>) % 256,
                       calc_crc16(<<unit_id, 3, reg \div 256, reg % 256, 0, 1>>) \div 256>>
        /\ pc = "reading" => written = request
        /\ (unit_id = 1 /\ reg = 32)
              => request = <<1, 3, 0, 32, 0, 1, 133, 192>>
        /\ (pc = "done" /\ ValidSingleResponse(unit_id, rx)
               /\ last_read \in NoDataSignals)
              => result = Ok(<<U16(rx[4], rx[5])>>)
        /\ (pc = "done" /\ unit_id = 1
               /\ rx = <<1, 3, 2, 86, 120, 135, 198>>
               /\ last_read \in NoDataSignals)
              => result = Ok(<<22136>>)

C2_Witness ==
    /\ op = "read_single" /\ pc = "done"
    /\ unit_id = 1 /\ reg = 32
    /\ written = <<1, 3, 0, 32, 0, 1, 133, 192>>
    /\ rx = <<1, 3, 2, 86, 120, 135, 198>>
    /\ last_read = "WouldBlock"
    /\ result = Ok(<<22136>>)

\* a response that fails the CRC or is not a read-holding-registers
\* response of this unit with a consistent byte count
Malformed(u, b) ==
    \/ Len(b) < 5
    \/ U16(b[Len(b)], b[Len(b) - 1]) # calc_crc16(SubSeq(b, 1, Len(b) - 2))
    \/ b[1] # u
    \/ b[2] # 3
    \/ b[3] # Len(b) - 5

\* C3: a read transaction (single or bulk) whose accumulated response fails
\* the CRC or is structurally malformed returns InvalidResponse: never a
\* register value, never a panic; 01 03 02 56 78 00 00 answering a read of
\* register 0x20 yields InvalidResponse.
C3_BadResponseRejected ==
    (op \in {"read_single", "read_bulk"} /\ pc = "done") =>
        /\ result.tag # "Panic"
        /\ (Validated /\ Malformed(unit_id, buff))
              => result = Err("InvalidResponse", "none")
        /\ (Validated /\ unit_id = 1 /\ buff = <<1, 3, 2, 86, 120, 0, 0>>)
              => result = Err("InvalidResponse", "none")

C3_Witness ==
    /\ op = "read_single" /\ pc = "done" /\ reg = 32 /\ unit_id = 1
    /\ buff = <<1, 3, 2, 86, 120, 0, 0>>
    /\ exit = "idle"
    /\ result = Err("InvalidResponse", "none")

\* C4: write_modbus_single returns Ok if and only if the accumulated bytes
\* are identical to the transmitted request (same length, same bytes, same
\* order); any other content handed to the comparison, a correct frame
\* preceded or followed by extra bytes included, yields InvalidResponse.
C4_WriteSingleEcho ==
    (op = "write_single" /\ pc = "done") =>
        /\ result.tag = "Ok" <=> buff = request
        /\ result.tag = "Ok" => written = request
        /\ (Validated /\ buff # request)
              => result = Err("InvalidResponse", "none")

C4_Witness ==
    /\ op = "write_single" /\ pc = "done" /\ exit = "full"
    /\ Len(buff) > 8
    /\ SubSeq(buff, 1, 8) = request
    /\ result = Err("InvalidResponse", "none")

\* a complete, CRC-correct response to a bulk read of c registers
ValidBulkResponse(u, c, b) ==
    /\ Len(b) = 5 + 2 * c
    /\ b[1] = u /\ b[2] = 3 /\ b[3] = 2 * c
    /\ U16(b[Len(b)], b[Len(b) - 1]) = calc_crc16(SubSeq(b, 1, Len(b) - 2))

\* C5: when a transport read delivers bytes that do not fit in what is
\* left of the L-byte accumulation buffer, the transaction returns
\* BufferError, never Ok or a decoded value; a bulk read whose valid
\* response (5 + 2*count bytes) is longer than L never yields registers.
C5_BufferExhausted ==
    /\ Len(rx) > L => (pc = "done" /\ result = Err("BufferError", "none"))
    /\ rx # buff => (pc = "done" /\ result = Err("BufferError", "none"))
    /\ Len(buff) <= L
    /\ (op = "read_bulk" /\ pc = "done" /\ written = request
          /\ ValidBulkResponse(unit_id, count, rx \o wire)
          /\ Len(rx \o wire) > L)
         => result.tag # "Ok"

C5_Witness ==
    /\ op = "read_bulk" /\ pc = "done" /\ L = 8 /\ count = 2
    /\ ValidBulkResponse(unit_id, count, rx)
    /\ Len(buff) < Len(rx)
    /\ result = Err("BufferError", "none")

\* byte length of a complete response of the expected shape
CompleteLen(o, c) ==
    CASE o = "read_single"  -> 7
      [] o = "read_bulk"    -> 5 + 2 * c
      [] o = "write_single" -> 8
      [] o = "write_bulk"   -> 8

\* C6: the loop issues no further transport read once the accumulated
\* length has reached the length of a complete response (7 for a single
\* read, 5 + 2*count for a bulk read, 8 for the writes): the engine is
\* never at the head of the loop, about to read, with that many bytes.
C6_NoReadAfterComplete ==
    pc = "reading" => Len(buff) < CompleteLen(op, count)

\* C7: when a read reports no-data while the buffer holds at least one
\* byte, the loop stops, no further read is issued and the accumulated
\* bytes, unchanged, go to validation/decoding: the call returns the
\* outcome of that validation, not the no-data signal as an error.
C7_NoDataEndsFrame ==
    [][(pc = "reading" /\ buff # <<>> /\ last_read' \in NoDataSignals)
         => /\ pc' = "done"
            /\ exit' = "idle"
            /\ buff' = buff
            /\ result'.tag \in {"Ok", "InvalidResponse", "Panic"}
            /\ result'.cause = "none"
            /\ op = "write_single"
                 => result' = IF buff = request THEN Ok(<<>>)
                              ELSE Err("InvalidResponse", "none")]_vars

C7_Witness ==
    /\ pc = "done" /\ last_read \in NoDataSignals /\ buff # <<>>
    /\ op = "read_single"
    /\ ValidSingleResponse(unit_id, buff)
    /\ result.tag = "Ok"

\* C8: when the transport reports no-data while the buffer is still empty,
\* the transaction fails at once, reads no further, returns no value, and
\* the error is of the timeout kind, not the transport-failure kind.
C8_EmptyNoDataIsTimeout ==
    (pc = "done" /\ last_read \in NoDataSignals /\ buff = <<>>)
        => /\ result.val = <<>>
           /\ result.tag = "Timeout"

\* C9: a read failure that is not the no-data signal aborts the
\* transaction with the transport error carrying that failure, whether or
\* not bytes were accumulated; the partial buffer is never validated.
C9_ReadFailureAborts ==
    (pc = "done" /\ last_read \in ReadErrors \ NoDataSignals)
        => /\ result = Err("SerialError", last_read)
           /\ ~Validated

\* C10: when writing the request fails, the transaction returns the
\* transport error and no read follows; a read is only ever issued after
\* the whole request frame has been written.
C10_NoReadAfterFailedWrite ==
    /\ (pc # "idle" /\ written # request)
         => /\ pc = "done"
            /\ result.tag = "SerialError"
            /\ result.cause \in WriteErrors
            /\ last_read = "none"
            /\ rx = <<>>
    /\ last_read # "none" => (written = request /\ Len(request) >= 8)
    /\ pc = "reading" => (written = request /\ Len(request) >= 8)

C10_Witness ==
    /\ pc = "done" /\ exit = "write"
    /\ written # <<>> /\ Len(written) < Len(request)
    /\ result = Err("SerialError", "SimulatedError")
    /\ last_read = "none"

\* C11: every transaction terminates: whatever each read returns (bytes,
\* zero bytes, no-data or an error), a transaction that has entered its
\* accumulation loop leaves it and returns a value or an error.
C11_TransactionTerminates == (pc = "reading") ~> (pc = "done")

\* C12: no transaction retries: the request frame is transmitted once (what
\* was written stays what it is until the call returns, and the loop only
\* runs after the one complete write), and once a failure is the result
\* the call has returned: no write or read follows before the return.
C12_NoRetry ==
    /\ [](/\ pc = "reading" => written = request
          /\ result.tag \notin {"none", "Ok"} => pc = "done"
          /\ (pc = "done" /\ exit \notin {"gen", "write"})
                => written = request)
    /\ [][/\ pc # "idle"
              => \/ pc' = "idle"
                 \/ written' = written /\ request' = request
          /\ pc = "done"
              => pc' = "idle" /\ written' = <<>> /\ last_read' = "none"
         ]_vars

C12_Witness ==
    /\ pc = "done" /\ exit = "overflow"
    /\ result = Err("BufferError", "none")
    /\ written = request /\ Len(request) >= 8
    /\ wire # <<>>

\* C13: write_modbus_bulk never panics on a short response: when the
\* transport delivers 1 to 5 bytes and then reports no-data, the call
\* returns the invalid-response error as a typed result.
C13_ShortBulkResponseTyped ==
    (/\ op = "write_bulk" /\ pc = "done"
     /\ last_read \in NoDataSignals
     /\ Len(buff) \in 1..5)
        => result = Err("InvalidResponse", "none")

\* C14: read_modbus_single returns the device's register value when the
\* bus echoes the request: when the line carries the 8 request bytes
\* followed by the valid 7-byte response and no read fails, the call
\* returns the value carried by the response.
C14_EchoThenResponse ==
    LET line == rx \o wire IN
    (/\ op = "read_single" /\ pc = "done"
     /\ last_read \in {"Ok"} \cup NoDataSignals
     /\ Len(line) = 15
     /\ SubSeq(line, 1, 8) = request
     /\ ValidSingleResponse(unit_id, SubSeq(line, 9, 15)))
        => result = Ok(<<U16(line[12], line[13])>>)

\* the first six bytes of the accumulated response are those of the request
HeaderEchoed == Len(buff) >= 6 /\ SubSeq(buff, 1, 6) = SubSeq(request, 1, 6)

\* C15: write_modbus_bulk returns Ok exactly when the first six bytes of
\* the accumulated response (unit id, function code, start address,
\* register count) equal the first six bytes of the request; the bytes
\* after the sixth do not influence the outcome.
C15_WriteBulkHeaderOnly ==
    (op = "write_bulk" /\ pc = "done")
        => /\ result.tag = "Ok" => (Validated /\ HeaderEchoed)
           /\ Validated => (result.tag = "Ok" <=> HeaderEchoed)
           /\ (Validated /\ Len(buff) >= 6 /\ ~HeaderEchoed)
                => result = Err("InvalidResponse", "none")

C15_Witness ==
    /\ op = "write_bulk" /\ pc = "done" /\ exit = "full"
    /\ Len(buff) = 8 /\ HeaderEchoed
    /\ buff # WriteBulkResponse(request)
    /\ result = Ok(<<>>)

\* x is a multiple of d whose quotient fits a 16-bit register
ExactInRange(x, d) == div_u32(x, d).r = 0 /\ fits_u16(div_u32(x, d).q)

\* C16: scaling round trip: for non-zero divisors and every raw value x,
\* converting x to the physical unit and back gives x, for voltage, current
\* and power; and every physical p that is a multiple of the divisor with
\* p / divisor <= 65535 converts to raw and back to p.
C16_ScalingRoundTrip ==
    /\ fcall.name = "raw_to_physical"
          => /\ fret.tag = "Ok"
             /\ physical_to_raw(fcall.arg.q, fcall.arg.sf, fret.val)
                  = fcall.arg.raw
    /\ (/\ fcall.name = "physical_to_raw"
        /\ ExactInRange(fcall.arg.physical,
                        divisor_of(fcall.arg.q, fcall.arg.sf)))
          => raw_to_physical(fcall.arg.q, fcall.arg.sf, fret.val)
               = [val |-> fcall.arg.physical, ovf |-> FALSE]

\* C18: for every preset register offset o in 0x00..0x0E and group g in
\* 0..9, address_in_group(o, g) = 0x50 + g * 0x10 + o, strictly increasing
\* in g for a fixed register; VSet is 0x50 in group 0 and 0x80 in group 3,
\* SOwhL is 0x8A in group 3.
C18_AddressInGroup ==
    fcall.name = "address_in_group"
        => LET o == fcall.arg.offset
               g == fcall.arg.group
           IN /\ fret = Ok(80 + g * 16 + o)
              /\ \A g2 \in 0..9 :
                    g2 < g => address_in_group(o, g2) < fret.val
              /\ (o = XPO.VSet /\ g = 0) => fret.val = 80
              /\ (o = XPO.VSet /\ g = 3) => fret.val = 128
              /\ (o = XPO.SOwhL /\ g = 3) => fret.val = 138

C18_Witness ==
    /\ fcall = [name |-> "address_in_group", arg |-> [offset |-> 10, group |-> 3]]
    /\ fret = Ok(138)

\* C19: for every Celsius value c for which the 16-bit arithmetic does not
\* overflow, Celsius(c).as_fahrenheit() is 1.8 * c + 32 rounded half-up,
\* and converting that Fahrenheit value back with as_celsius() gives c
\* (10 C -> 50 F -> 10 C, 21 C -> 70 F -> 21 C).
C19_TemperatureRoundTrip ==
    (/\ fcall.name = "as_fahrenheit"
     /\ fcall.arg.unit = "Celsius"
     /\ fcall.arg.value * 90 < TwoTo16)
        => LET c == fcall.arg.value
               f == (18 * c + 320 + 5) \div 10
           IN /\ fret = Ok(f)
              /\ as_celsius(Fahrenheit(fret.val)) = [val |-> c, ovf |-> FALSE]
              /\ c = 10 => fret.val = 50
              /\ c = 21 => fret.val = 70

C19_Witness ==
    /\ fcall = [name |-> "as_fahrenheit", arg |-> Celsius(21)]
    /\ fret = Ok(70)
    /\ as_celsius(Fahrenheit(70)) = [val |-> 21, ovf |-> FALSE]

\* a write frame was transmitted by the latest accessor call
WriteIssued == \E i \in 1..Len(log) : log[i].kind = "write"

\* the latest set_protections call got as far as the preset encoder
EncoderReached ==
    /\ fcall.name = "set_protections"
    /\ \E i \in 1..Len(log) :
           log[i].kind = "read" /\ log[i].addr = XyRegister.FC

\* the invalid-range error, and no write frame
Rejected == fret.tag = "InvalidRange" /\ ~WriteIssued

\* C17: a physical value whose raw quotient does not fit in 16 bits is
\* rejected: set_output_voltage_mv, set_current_limit_ma and the preset
\* encoder return the invalid-range error, without panicking and without
\* transmitting a write frame, when value / divisor exceeds 65535.
C17_OutOfRangeRejected ==
    /\ (/\ fcall.name = "set_output_voltage_mv"
        /\ scaling # None
        /\ ~fits_u16(div_u32(fcall.arg, scaling[1].voltage_divisor).q))
          => Rejected
    /\ (/\ fcall.name = "set_current_limit_ma"
        /\ scaling # None
        /\ ~fits_u16(div_u32(fcall.arg, scaling[1].current_divisor).q))
          => Rejected
    /\ (/\ EncoderReached
        /\ ~fits_u16(div_u32(fcall.arg.over_voltage_mv, 10).q))
          => Rejected

\* every field of p is a multiple of its divisor, and the duration is a
\* whole number of minutes
Representable(p, sf) ==
    /\ div_u32(p.under_voltage_mv, sf.voltage_divisor).r = 0
    /\ div_u32(p.over_voltage_mv, sf.voltage_divisor).r = 0
    /\ p.over_current_ma % sf.current_divisor = 0
    /\ div_u32(p.over_power_mw, sf.power_divisor).r = 0
    /\ p.over_time % 60 = 0
    /\ div_u32(p.over_capacity_mah, sf.capacity_divisor).r = 0
    /\ div_u32(p.over_energy_mwh, sf.energy_divisor).r = 0

\* the fields of the configuration read back equal those of p; the
\* temperature is compared in the unit it is read back in
SameProtections(got, p) ==
    /\ got.under_voltage_mv = p.under_voltage_mv
    /\ got.over_voltage_mv = p.over_voltage_mv
    /\ got.over_current_ma = u32(p.over_current_ma)
    /\ got.over_power_mw = p.over_power_mw
    /\ got.over_time = p.over_time
    /\ got.over_capacity_mah = p.over_capacity_mah
    /\ got.over_energy_mwh = p.over_energy_mwh
    /\ got.over_temperature.value
          = as_unit(p.over_temperature, got.over_temperature.unit).val

\* C20: with fixed scaling factors and a device that stores what is
\* written, set_protections(p) followed immediately by get_protections()
\* returns a configuration whose every field equals the field of p, for
\* every p whose fields are multiples of the divisors and whose duration is
\* a whole number of minutes.
C20_ProtectionsRoundTrip ==
    [][(/\ fcall.name = "set_protections"
        /\ fret.tag = "Ok"
        /\ Representable(fcall.arg, scaling[1])
        /\ fcall'.name = "get_protections")
          => (/\ fret'.tag = "Ok"
              /\ SameProtections(fret'.val, fcall.arg))]_vars


\* the preset encoder returned a block
Encoded == fcall.name = "generate_write_data_and_offset" /\ fret.tag = "Ok"

\* the register of the encoded block at an offset
Block(offset) == fret.val.write_buffer[offset + 1]

\* C26: in the encoded preset block SOahL/SOahH hold the low and high 16
\* bits of the over-capacity threshold and SOwhL/SOwhH the low and high 16
\* bits of the over-energy threshold.
C26_CapacityEnergyHalves ==
    Encoded =>
        LET p == fcall.arg.preset.protection IN
        /\ Block(XPO.SOahL) = p.over_capacity_mah.lo
        /\ Block(XPO.SOahH) = p.over_capacity_mah.hi
        /\ Block(XPO.SOwhL) = p.over_energy_mwh.lo
        /\ Block(XPO.SOwhH) = p.over_energy_mwh.hi

\* C28: the hours register holds floor(total_minutes / 60), the minutes
\* register total_minutes mod 60 (below 60), hours * 60 + minutes is the
\* duration in whole minutes, and decoding the two registers as
\* get_protections does recovers every whole-minute duration.
C28_OverTimeSplit ==
    Encoded =>
        LET secs == fcall.arg.preset.protection.over_time
            total_minutes == secs \div 60
        IN /\ Block(XPO.SOhpH) = total_minutes \div 60
           /\ Block(XPO.SoHpM) = total_minutes % 60
           /\ Block(XPO.SoHpM) < 60
           /\ Block(XPO.SOhpH) * 60 + Block(XPO.SoHpM) = total_minutes
           /\ secs % 60 = 0
                => decode_over_time(Block(XPO.SOhpH), Block(XPO.SoHpM)) = secs

\* a block was encoded for 65535 h 59 min
C28_Witness ==
    /\ Encoded
    /\ fcall.arg.preset.protection.over_time = 65535 * 3600 + 59 * 60
    /\ Block(XPO.SOhpH) = 65535
    /\ Block(XPO.SoHpM) = 59

\* C29: in every encoded block the external-over-temperature register
\* equals the primary over-temperature register, both the configured
\* over-temperature in the device's current unit, and the output-enable
\* register is 1 exactly when output-enable is On.
C29_TemperatureMirrorAndOutput ==
    Encoded =>
        LET t == fcall.arg.preset.protection.over_temperature
            unit == fcall.arg.temperature_unit
            expected == IF unit = t.unit THEN t.value
                        ELSE IF unit = "Celsius" THEN f_to_c(t.value).val
                        ELSE c_to_f(t.value).val
        IN /\ Block(XPO.SEtp) = Block(XPO.SOtp)
           /\ Block(XPO.SOtp) = expected
           /\ Block(XPO.SIni) \in {0, 1}
           /\ Block(XPO.SIni) = 1 <=> fcall.arg.preset.output_enable = 1

\* 140 F was encoded for a device in Celsius with the output off
C29_Witness ==
    /\ Encoded
    /\ fcall.arg.preset.protection.over_temperature = Fahrenheit(140)
    /\ fcall.arg.temperature_unit = "Celsius"
    /\ fcall.arg.preset.output_enable = 0
    /\ Block(XPO.SOtp) = 60
    /\ Block(XPO.SIni) = 0


\* the latest call read the given register, with that outcome
ReadDone(addr, outcome) ==
    \E i \in 1..Len(log) :
        /\ log[i].kind = "read"
        /\ log[i].addr = addr
        /\ log[i].outcome = outcome

\* the accessors that go through ensure_scaling
ScaledAccessors ==
    {"read_output_voltage_mv", "set_output_voltage_mv",
     "set_current_limit_ma", "set_protections", "get_protections"}

\* C21: scaling is resolved at most once per session: once factors are
\* cached, by detection or by set_scaling_factors, no scaled operation reads
\* the model register, the factors it uses are the cached ones, and only
\* set_scaling_factors changes the cached factors.
C21_ScalingResolvedOnce ==
    [][scaling # None =>
        /\ \A i \in 1..Len(log') : log'[i].addr # XyRegister.Model
        /\ fcall'.name # "set_scaling_factors" => scaling' = scaling
        /\ (fcall'.name = "set_output_voltage_mv" /\ fret'.tag = "Ok")
             => dev'[XyRegister.VSet]
                  = as_u16(div_u32(fcall'.arg,
                                   scaling[1].voltage_divisor).q)
        /\ (fcall'.name = "set_current_limit_ma" /\ fret'.tag = "Ok")
             => dev'[XyRegister.ISet]
                  = as_u16(div_u32(fcall'.arg,
                                   scaling[1].current_divisor).q)
        /\ (fcall'.name = "read_output_voltage_mv" /\ fret'.tag = "Ok")
             => fret'.val
                  = mul_u32(u32(dev[XyRegister.VOut]),
                            scaling[1].voltage_divisor).val]_vars

\* the factors detected by the first call serve the second, which reads no
\* model register
C21_Witness ==
    /\ calls = 2
    /\ fcall.name = "set_current_limit_ma"
    /\ fret.tag = "Ok"
    /\ dev[XyRegister.Model] = 7025
    /\ scaling = scaling_factors(7025)
    /\ ~ReadDone(XyRegister.Model, "Ok")

\* C22: with no cached scaling and a model code that is unrecognised or
\* has no confirmed divisors, every scaled accessor returns the
\* scaling-unavailable error, issues no transaction but the model-register
\* read, and caches no factors.
C22_UnknownModelIsScalingError ==
    (/\ fcall.name \in ScaledAccessors
     /\ ReadDone(XyRegister.Model, "Ok")
     /\ dev[XyRegister.Model] \notin {3607, 7025, 12522})
       => /\ fret.tag = "ScalingNotAvailable"
          /\ Len(log) = 1
          /\ scaling = None

\* the reads of set_protections before its write, in order
SetProtectionsReads ==
    <<XyRegister.ExtractM, XyRegister.VSet, XyRegister.ISet,
      XyRegister.OnOff, XyRegister.FC>>

\* C23: set_protections issues its bulk write only after the reads of the
\* active group, the voltage setpoint, the current setpoint, the output
\* state and the temperature unit have succeeded, in that order; if one of
\* these reads fails, that error is returned and no write frame is sent.
C23_WriteAfterReads ==
    fcall.name = "set_protections" =>
        /\ \A w \in 1..Len(log) :
             log[w].kind = "write" =>
                 /\ w > 5
                 /\ \A k \in 1..5 :
                      /\ log[w - 6 + k].kind = "read"
                      /\ log[w - 6 + k].addr = SetProtectionsReads[k]
                      /\ log[w - 6 + k].outcome = "Ok"
        /\ \A i \in 1..Len(log) :
             (/\ log[i].kind = "read"
              /\ log[i].outcome # "Ok"
              /\ log[i].addr # XyRegister.Model)
               => /\ fret.tag = log[i].outcome
                  /\ ~WriteIssued

\* the read of the output state failed after three successful reads
C23_Witness ==
    /\ fcall.name = "set_protections"
    /\ ReadDone(XyRegister.ISet, "Ok")
    /\ ReadDone(XyRegister.OnOff, "Timeout")
    /\ fret.tag = "Timeout"
    /\ ~WriteIssued

\* C24: set_protections preserves the setpoints for every choice of
\* scaling factors: VSet, ISet and the output-enable register of the block
\* it writes equal the raw setpoints and the output state it read.
C24_SetpointsPreserved ==
    fcall.name = "set_protections" =>
        \A w \in 1..Len(log) :
            log[w].kind = "write" =>
                /\ log[w].regs[XPO.VSet + 1] = dev[XyRegister.VSet]
                /\ log[w].regs[XPO.ISet + 1] = dev[XyRegister.ISet]
                /\ log[w].regs[XPO.SIni + 1] = dev[XyRegister.OnOff]

\* C25: set_protections performs exactly one bulk write, at 0x50 + g * 0x10
\* for the group g read from the active-preset register in the same call,
\* with the 15 registers of the block in offset order; it writes to no
\* other group.
C25_OneBlockWrite ==
    fcall.name = "set_protections" =>
        /\ Cardinality({w \in 1..Len(log) : log[w].kind = "write"}) <= 1
        /\ fret.tag = "Ok" => WriteIssued
        /\ \A w \in 1..Len(log) :
             log[w].kind = "write" =>
                 /\ ReadDone(XyRegister.ExtractM, "Ok")
                 /\ dev[XyRegister.ExtractM] \in 0..9
                 /\ log[w].addr = 80 + dev[XyRegister.ExtractM] * 16
                 /\ Len(log[w].regs) = 15
                 /\ log[w].regs[XPO.SLvp + 1]
                      = as_u16(div_u32(fcall.arg.under_voltage_mv, 10).q)
                 /\ log[w].regs[XPO.SoHpM + 1]
                      = (fcall.arg.over_time \div 60) % 60
                 /\ log[w].regs[XPO.SEtp + 1] = log[w].regs[XPO.SOtp + 1]
                 /\ fret.tag = "Ok"
                      => \A a \in DOMAIN dev :
                           a \in log[w].addr..(log[w].addr + 14)
                             => dev[a] = log[w].regs[a - log[w].addr + 1]

\* the block of group 3 was written, and that of group 0 left empty
C25_Witness ==
    /\ fcall.name = "set_protections"
    /\ fret.tag = "Ok"
    /\ dev[XyRegister.ExtractM] = 3
    /\ \E w \in 1..Len(log) : log[w].kind = "write" /\ log[w].addr = 128
    /\ dev[128 + XPO.SOvp] = 1500
    /\ dev[80 + XPO.SOvp] = 0

\* C27: every voltage, current, power, capacity and energy field of the
\* encoded block equals the physical value divided by the session's
\* corresponding divisor, for every ScalingFactors.
C27_EncoderUsesSessionDivisors ==
    (fcall.name = "set_protections" /\ scaling # None) =>
        \A w \in 1..Len(log) :
            log[w].kind = "write" =>
                LET sf == scaling[1]
                    p == fcall.arg
                    block == log[w].regs
                    cap == div_u32(p.over_capacity_mah, sf.capacity_divisor).q
                    en == div_u32(p.over_energy_mwh, sf.energy_divisor).q
                IN /\ block[XPO.SLvp + 1]
                        = as_u16(div_u32(p.under_voltage_mv,
                                         sf.voltage_divisor).q)
                   /\ block[XPO.SOvp + 1]
                        = as_u16(div_u32(p.over_voltage_mv,
                                         sf.voltage_divisor).q)
                   /\ block[XPO.SOcp + 1]
                        = p.over_current_ma \div sf.current_divisor
                   /\ block[XPO.SOpp + 1]
                        = as_u16(div_u32(p.over_power_mw,
                                         sf.power_divisor).q)
                   /\ block[XPO.SOahL + 1] = cap.lo
                   /\ block[XPO.SOahH + 1] = cap.hi
                   /\ block[XPO.SOwhL + 1] = en.lo
                   /\ block[XPO.SOwhH + 1] = en.hi

\* the latest call issued a bulk transaction
BulkIssued ==
    \E i \in 1..Len(log) :
        \/ log[i].kind = "write"
        \/ log[i].kind = "read" /\ log[i].regs > 1

\* C30: get_active_preset returns a group only for register values 0 to 9;
\* for a value above 9 it returns an error, and set_protections and
\* get_protections then issue no bulk transaction.
C30_ActiveGroupChecked ==
    (/\ fcall.name \in {"set_protections", "get_protections"}
     /\ ReadDone(XyRegister.ExtractM, "Ok"))
       => /\ dev[XyRegister.ExtractM] > 9
               => /\ fret.tag = "Other"
                  /\ log[Len(log)].addr = XyRegister.ExtractM
                  /\ ~BulkIssued
          /\ (fret.tag = "Ok" \/ BulkIssued)
               => dev[XyRegister.ExtractM] \in 0..9

\* the active-preset register held 10 when get_protections was called
C30_Witness ==
    /\ fcall.name = "get_protections"
    /\ ReadDone(XyRegister.ExtractM, "Ok")
    /\ dev[XyRegister.ExtractM] = 10
    /\ fret.tag = "Other"

\* C31: set_slave_address transmits a write frame only for addresses in 1
\* to 247: for every address outside that range (0 and 248 to 255) it aborts
\* as an invariant violation before anything is written to the transport.
C31_SlaveAddressInRange ==
    fcall.name = "set_slave_address"
       => /\ log # <<>> => fcall.arg \in 1..247
          /\ fcall.arg \notin 1..247 => fret.tag = "Panic"

\* a setter and the getter of the same on/off quantity
OnOffAccessors ==
    <<<<"set_lock_state", "get_lock_state">>,
      <<"set_output_state", "get_output_state">>,
      <<"set_buzzer_enabled", "get_buzzer_enabled">>,
      <<"set_mppt_enabled", "get_mppt_enabled">>,
      <<"set_constant_power_enabled", "get_constant_power_enabled">>,
      <<"set_sleep_state", "get_sleep_state">>>>

\* C32: the on/off accessors are polarity-consistent: for lock, output,
\* buzzer, MPPT, constant power and sleep, a successful set_X(s) followed by
\* a successful get_X() on a device that stores what is written returns s,
\* for s = On and s = Off.
C32_OnOffPolarity ==
    [][\A i \in 1..Len(OnOffAccessors) :
          (/\ fcall.name = OnOffAccessors[i][1]
           /\ fret.tag = "Ok"
           /\ fcall'.name = OnOffAccessors[i][2]
           /\ fret'.tag = "Ok")
             => fret'.val = fcall.arg]_vars

\* the registers of the quantity each single-purpose accessor names, in
\* the order it addresses them
NamedRegisters ==
    <<<<"read_power_mw", <<"Power">>>>,
      <<"set_lock_state", <<"Lock">>>>,
      <<"get_lock_state", <<"Lock">>>>,
      <<"set_output_state", <<"OnOff">>>>,
      <<"get_output_state", <<"OnOff">>>>,
      <<"set_buzzer_enabled", <<"Buzzer">>>>,
      <<"get_buzzer_enabled", <<"Buzzer">>>>,
      <<"set_mppt_enabled", <<"MpptSw">>>>,
      <<"get_mppt_enabled", <<"MpptSw">>>>,
      <<"set_constant_power_enabled", <<"CwSw">>>>,
      <<"get_constant_power_enabled", <<"CwSw">>>>,
      <<"set_sleep_state", <<"Device">>>>,
      <<"get_sleep_state", <<"Device">>>>,
      <<"set_slave_address", <<"SlaveAdd">>>>,
      <<"read_energy_mwh", <<"WhLow", "WhHigh">>>>,
      <<"read_capacity_mah", <<"AhLow", "AhHigh">>>>,
      <<"read_output_time", <<"OutH", "OutM", "OutS">>>>,
      <<"read_temperature_internal", <<"FC", "TIn">>>>>>

\* the transactions of the latest call after the detection of the model
AfterDetection ==
    IF log # <<>> /\ log[1].addr = 22 THEN Tail(log) ELSE log

MultiTransaction ==
    {"read_energy_mwh", "read_capacity_mah", "read_output_time",
     "read_temperature_internal", "get_protections", "set_protections"}

\* C34: an operation made of several transactions stops at its first
\* failing transaction: the failed transaction is the last one issued and
\* the operation returns its error unchanged.
C34_StopsAtFirstFailure ==
    fcall.name \in MultiTransaction
       => \A i \in 1..Len(log) :
             log[i].outcome # "Ok"
                => /\ i = Len(log)
                   /\ fret = Err(log[i].outcome, "none")

\* the second read of read_output_time timed out and the third was
\* not issued
C34_Witness ==
    /\ fcall.name = "read_output_time"
    /\ Len(log) = 2
    /\ log[1].outcome = "Ok"
    /\ log[2].outcome = "Timeout"
    /\ log[2].addr = XyRegister.OutM
    /\ fret = Err("Timeout", "none")

\* the latest call failed to resolve the scaling factors
ResolutionFailed ==
    /\ fcall.name \in ScaledAccessors
    /\ \/ log # <<>> /\ log[1].addr = XyRegister.Model
          /\ log[1].outcome # "Ok"
       \/ fret.tag = "ScalingNotAvailable"

\* C36: when resolving the scaling factors fails, the cached scaling stays
\* unset and the unit id is unchanged, and the next scaled operation reads
\* the model register again, as its first transaction.
C36_FailedResolutionNotCached ==
    [][/\ (scaling = None /\ ResolutionFailed')
          => scaling' = None /\ unit_id' = unit_id
       /\ (ResolutionFailed /\ fcall'.name \in ScaledAccessors)
          => /\ scaling = None
             /\ log' # <<>>
             /\ log'[1].addr = XyRegister.Model]_vars

\* a scaled operation was called after a failed resolution, and its read
\* of the model register failed as well
C36_Witness ==
    /\ calls = 2
    /\ ResolutionFailed
    /\ scaling = None
    /\ fret.tag = "InvalidResponse"

\* C37: preset blocks never overlap: for two distinct pairs (offset, group)
\* with offset in 0x00..0x0E and group in 0..9, address_in_group gives
\* distinct addresses; every such address lies in 0x50..0xEE, and none is
\* an address of the main register map (0x00..0x23).
C37_PresetBlocksDisjoint ==
    fcall.name = "address_in_group"
       => /\ \A o \in 0..(XPO_COUNT - 1), g \in 0..9 :
                address_in_group(o, g) = fret.val
                   => o = fcall.arg.offset /\ g = fcall.arg.group
          /\ fret.val \in 80..238
          /\ fret.val \notin 0..35
          /\ \A r \in DOMAIN XyRegister : XyRegister[r] # fret.val

\* the address of the last register of the last group
C37_Witness ==
    /\ fcall.name = "address_in_group"
    /\ fcall.arg.offset = XPO.SEtp
    /\ fcall.arg.group = 9
    /\ fret.val = 238

\* C38: the temperature arithmetic stays within 16 bits: as_celsius,
\* as_fahrenheit and from_centi compute their result without an
\* intermediate overflow or underflow, for Fahrenheit values below 32 and
\* Celsius values above 728 as for the others.
C38_TemperatureWithin16Bits ==
    /\ fcall.name = "as_celsius"
          => ~as_celsius(fcall.arg).ovf /\ fret.tag = "Ok"
    /\ fcall.name = "as_fahrenheit"
          => ~as_fahrenheit(fcall.arg).ovf /\ fret.tag = "Ok"
    /\ fcall.name = "from_centi"
          => /\ fret.tag = "Ok"
             /\ fret.val.value = div_10_and_round(fcall.arg.value)
             /\ fret.val.value < TwoTo16

\* C39: decoding the protection status as a single-value enumeration is
\* total and round-trips: from(s as u16) = s for every variant s, the
\* largest variant code is 0x0B, and every register value above 0x0B
\* decodes to the no-alarm variant without panicking.
C39_ProtectionStatusTotal ==
    /\ MAX_VALUE = 11
    /\ \A i \in 1..Len(ProtectionStatusVariants) :
          ProtectionStatus_as_u16(ProtectionStatusVariants[i]) <= MAX_VALUE
    /\ fcall.name = "ProtectionStatus_from"
          => /\ fret.tag = "Ok"
             /\ fcall.arg > 11 => fret.val = "AlarmCode"
             /\ \A i \in 1..Len(ProtectionStatusVariants) :
                   fcall.arg
                      = ProtectionStatus_as_u16(ProtectionStatusVariants[i])
                      => fret.val = ProtectionStatusVariants[i]

\* the largest register value was decoded to the no-alarm variant
C39_Witness ==
    /\ fcall.name = "ProtectionStatus_from"
    /\ fcall.arg = 65535
    /\ fret = Ok("AlarmCode")

\* C35: nothing is left in flight between transactions: a transaction
\* accumulates only bytes delivered in answer to its own request, so no
\* transaction accumulates bytes that a successful earlier transaction of
\* the session left unread in the transport.
C35_NothingLeftInFlight ==
    (pc \in {"reading", "done"} /\ pending.ok /\ pending.bytes # <<>>)
       => buff = <<>>

====
